---- MODULE Spec2Model ----
(***************************************************************************)
(* Model of the chat-behaviour pipeline: parser.py -> features.py ->      *)
(* clustering.py -> profiling.py -> report.py, driven by main.py.         *)
(*                                                                         *)
(* Timestamps are minutes since midnight of 1 January 2024.  Texts are    *)
(* sequences of Unicode code points.  Numeric table cells are exact       *)
(* rationals <<n, d>> with d > 0 in lowest terms; <<0, 0>> is NaN.        *)
(***************************************************************************)
EXTENDS Integers, Sequences, FiniteSets, TLC

VARIABLES
    content,        \* the transcript: a sequence of physical lines
    n_clusters,     \* argument n_clusters of the entry point
    random_state,   \* argument random_state of the entry point
    csv_output,     \* argument csv_output of analyze_chat, or NoPath
    pdf_output,     \* argument pdf_output of analyze_chat, or NoPath
    cluster_names,  \* argument cluster_names of analyze_chat_streamlit
    entry,          \* which entry point of main.py runs
    pc,             \* position inside the entry point
    df,             \* parse_whatsapp_chat's DataFrame: a sequence of records
    features_df,    \* the per-author table: author -> row
    error,          \* the exception that left the entry point, or NoError
    csv_file,       \* the CSV report on disk: NoFile, or the rows written
    pdf_file,       \* the PDF report on disk: NoFile, or the sections written
    result,         \* what the entry point returned, or None
    fitted          \* KMeans as far as it has been run: <<X, k, seed>> -> labels

\* the arguments of the entry point
args == <<content, n_clusters, random_state, csv_output, pdf_output,
          cluster_names, entry>>

vars == <<args, pc, df, features_df, error, csv_file, pdf_file, result, fitted>>

(***************************************************************************)
(* Bounds of the model.                                                    *)
(***************************************************************************)
MaxLines == 3       \* lines of a transcript in Spec
MaxK == 3           \* largest n_clusters tried in Spec
MaxMsgs == 3        \* records of a DataFrame in SpecFeat
MaxParseLines == 2  \* lines of a transcript in SpecParse

(***************************************************************************)
(* Rational arithmetic for the float columns.                              *)
(***************************************************************************)
Abs(n) == IF n < 0 THEN -n ELSE n

RECURSIVE GCD(_, _)
GCD(a, b) == IF b = 0 THEN a ELSE GCD(b, a % b)

NaN == <<0, 0>>
IsNaN(x) == x[2] = 0
Rat(n, d) == LET g == GCD(Abs(n), d) IN <<n \div g, d \div g>>
Zero == <<0, 1>>
One == <<1, 1>>
RAdd(a, b) == IF IsNaN(a) \/ IsNaN(b) THEN NaN
              ELSE Rat(a[1] * b[2] + b[1] * a[2], a[2] * b[2])
RSub(a, b) == IF IsNaN(a) \/ IsNaN(b) THEN NaN
              ELSE Rat(a[1] * b[2] - b[1] * a[2], a[2] * b[2])
RMul(a, b) == IF IsNaN(a) \/ IsNaN(b) THEN NaN
              ELSE Rat(a[1] * b[1], a[2] * b[2])
\* a / n for an integer n > 0
RDivInt(a, n) == IF IsNaN(a) THEN NaN ELSE Rat(a[1], a[2] * n)
\* Python's a < b, a >= b on floats: every comparison with NaN is False
RLt(a, b) == ~IsNaN(a) /\ ~IsNaN(b) /\ a[1] * b[2] < b[1] * a[2]
RGe(a, b) == ~IsNaN(a) /\ ~IsNaN(b) /\ a[1] * b[2] >= b[1] * a[2]
\* Python's builtin min(a, b) and max(a, b): the first argument unless the
\* second compares strictly smaller (greater)
PyMin(a, b) == IF RLt(b, a) THEN b ELSE a
PyMax(a, b) == IF RLt(a, b) THEN b ELSE a

RECURSIVE SumSeq(_)
SumSeq(s) == IF s = <<>> THEN 0 ELSE Head(s) + SumSeq(Tail(s))

RECURSIVE RSumSeq(_)
RSumSeq(s) == IF s = <<>> THEN Zero ELSE RAdd(Head(s), RSumSeq(Tail(s)))

\* pandas mean of a group of integers: NaN for an empty (all-missing) group
Mean(s) == IF s = <<>> THEN NaN ELSE Rat(SumSeq(s), Len(s))
\* mean of a group of rationals
RMean(s) == IF s = <<>> THEN NaN ELSE RDivInt(RSumSeq(s), Len(s))

\* the elements of s in positions p[1], p[2], ...
Pick(s, p) == [i \in 1..Len(p) |-> s[p[i]]]

\* every ordering of the index set S in which key never decreases
RECURSIVE SortedOrders(_, _)
SortedOrders(key, S) ==
    IF S = {} THEN {<<>>}
    ELSE UNION {{<<i>> \o rest : rest \in SortedOrders(key, S \ {i})} :
                i \in {j \in S : \A l \in S : key[j] <= key[l]}}

RECURSIVE SortInts(_)
SortInts(s) ==
    IF s = <<>> THEN <<>>
    ELSE LET i == CHOOSE j \in 1..Len(s) : \A l \in 1..Len(s) : s[j] <= s[l]
         IN <<s[i]>> \o SortInts([l \in 1..(Len(s) - 1) |->
                                     IF l < i THEN s[l] ELSE s[l + 1]])

\* pandas median: the middle value, or the mean of the two middle values
Median(s) ==
    LET o == SortInts(s)
        n == Len(s)
    IN IF n = 0 THEN NaN
       ELSE IF n % 2 = 1 THEN Rat(o[(n + 1) \div 2], 1)
       ELSE Rat(o[n \div 2] + o[n \div 2 + 1], 2)

(***************************************************************************)
(* Inputs.                                                                 *)
(***************************************************************************)
HM(day, h, m) == day * 1440 + h * 60 + m

NaT == -1           \* pandas' missing timestamp
NoError == "NoError"
NoFile == [kind |-> "NoFile"]
None == [kind |-> "None"]
NoPath == ""        \* csv_output = None, pdf_output = None
CsvPaths == {NoPath, "a.csv"}   \* values of csv_output in SpecTwo
Seeds == {0, 42}    \* values of random_state

Txt_hi == <<104, 105>>                                           \* "hi"
Txt_link == <<79, 75, 33, 32, 104, 116, 116, 112, 58, 47, 47, 97>>   \* "OK! http://a"

\* author names of the transcripts
Usr_A == <<65>>
Usr_B == <<66>>
Usr_C == <<67>>

\* A physical line of a transcript, as the record pattern sees it: the date
\* and the time at its start, the text between " - " and the first colon
\* that whitespace follows, what follows that colon (sep: a space and the
\* rest of the line, the end of the line, or no such colon on the line) and
\* the rest of the line.  Every line ends in a newline.
NoDate == [shape |-> "none", f1 |-> 0, f2 |-> 0, year |-> 0]
NoClock == [hour |-> 0, minute |-> 0, mer |-> ""]
\* \d{1,2}/\d{1,2}/\d{2,4}: the fields in the order written
Slash(a, b, y) == [shape |-> "slash", f1 |-> a, f2 |-> b, year |-> y]
\* \d{4}-\d{2}-\d{2}: f1 is the month field, f2 the day field
Iso(y, m, d) == [shape |-> "iso", f1 |-> m, f2 |-> d, year |-> y]
\* \d{1,2}:\d{2} and, after one space, AM or PM (mer = "" without it)
Clock(h, m, mer) == [hour |-> h, minute |-> m, mer |-> mer]

\* a line that does not start with a date
TextLine(t) ==
    [date |-> NoDate, time |-> NoClock, user |-> <<>>, sep |-> "none", message |-> t]
\* "<date>, <time> - <user>: <message>"
RecordLine(d, t, u, m) ==
    [date |-> d, time |-> t, user |-> u, sep |-> "space", message |-> m]
\* "<date>, <time> - <user>:" with the newline right after the colon
ColonLine(d, t, u) ==
    [date |-> d, time |-> t, user |-> u, sep |-> "eol", message |-> <<>>]
\* "<date>, <time> - <message>" without a colon that whitespace follows
NoticeLine(d, t, m) ==
    [date |-> d, time |-> t, user |-> <<>>, sep |-> "none", message |-> m]

\* the transcripts of Spec: 1 and 2 January 2024, written day first
Authors == {Usr_A, Usr_B, Usr_C}
Dates == {Slash(1, 1, 2024), Slash(2, 1, 2024)}
Texts == {Txt_hi}
Lines ==
    {TextLine(Txt_hi)}
    \cup {RecordLine(Slash(13, 13, 2024), Clock(10, 0, "AM"), Usr_A, Txt_hi)}
    \cup {RecordLine(d, Clock(10, 0, "AM"), u, m) :
             d \in Dates, u \in Authors, m \in Texts}

\* the transcripts of SpecParse: every date layout, dates that only one
\* reading or none makes valid, both clocks, hours that only the lenient
\* parse takes...
SlashDates ==
    {Slash(1, 2, 2024), Slash(1, 2, 24), Slash(13, 2, 2024), Slash(2, 13, 2024),
     Slash(2, 13, 24), Slash(13, 13, 2024), Slash(31, 4, 2024), Slash(1, 2, 202)}
Clocks == {Clock(10, 0, "AM"), Clock(12, 30, "AM"), Clock(0, 30, "PM"), Clock(14, 0, "")}
StampLines ==
    {RecordLine(d, t, Usr_A, Txt_hi) : d \in SlashDates, t \in Clocks}
    \cup {RecordLine(Iso(2024, 1, 2), Clock(14, 0, ""), Usr_A, Txt_hi)}
\* ... and authors and messages that are empty, blank or padded, colons at
\* the end of the line, and lines without an author
FieldUsers == {Usr_A, <<>>, <<32>>, <<32, 66>>}
FieldTexts == {Txt_hi, <<>>, <<32>>}
FieldLines ==
    {RecordLine(Slash(1, 2, 2024), Clock(10, 0, "AM"), u, m) :
        u \in FieldUsers, m \in FieldTexts}
    \cup {ColonLine(d, Clock(10, 0, "AM"), Usr_C) :
             d \in {Slash(1, 2, 2024), Slash(13, 13, 2024)}}
    \cup {NoticeLine(Slash(1, 2, 2024), Clock(10, 0, "AM"), Txt_hi), TextLine(Txt_hi)}
ParseLines == StampLines \cup FieldLines

\* the DataFrames of SpecFeat: two authors whose names differ in case only,
\* times on both sides of the night boundaries
FeatAuthors == {"A", "a"}
FeatTimes == {HM(0, 5, 59), HM(0, 6, 0), HM(0, 7, 1), HM(0, 21, 59), HM(0, 22, 0),
              HM(1, 0, 0)}
FeatTexts == {Txt_hi, Txt_link}

\* the DataFrames of SpecConv: authors A and B, gaps below, at and above one hour
ConvAuthors == {"A", "B"}
ConvTimes == FeatTimes \cup {HM(0, 7, 0)}

SeqsUpTo(S, n) == UNION {[1..l -> S] : l \in 0..n}

(***************************************************************************)
(* parser.py                                                               *)
(***************************************************************************)
\* the calendar: days of a month, valid dates, and the number of days from
\* 1 January 2024 to a date of the years 2024 to 2099
IsLeap(y) == y % 4 = 0 /\ (y % 100 # 0 \/ y % 400 = 0)
DaysInMonth(y, m) ==
    IF m = 2 THEN (IF IsLeap(y) THEN 29 ELSE 28)
    ELSE IF m \in {4, 6, 9, 11} THEN 30 ELSE 31
ValidDate(y, m, d) == m \in 1..12 /\ d \in 1..DaysInMonth(y, m)

RECURSIVE DaysBeforeMonth(_, _)
DaysBeforeMonth(y, m) ==
    IF m = 1 THEN 0 ELSE DaysBeforeMonth(y, m - 1) + DaysInMonth(y, m - 1)
DayNumber(y, m, d) ==
    365 * (y - 2024) + (y - 2021) \div 4 + DaysBeforeMonth(y, m) + d - 1

\* the years a pandas Timestamp can hold in full (1677-09-21 to 2262-04-11)
InBounds(y) == y \in 1678..2261

\* decimal digits of n as code points
RECURSIVE Digits(_)
Digits(n) == IF n < 10 THEN <<48 + n>> ELSE Digits(n \div 10) \o <<48 + (n % 10)>>
TwoDigits(n) == <<48 + (n \div 10), 48 + (n % 10)>>

\* the text of the groups date_str and time_str, and of a whole line
date_str(d) ==
    IF d.shape = "slash"
    THEN Digits(d.f1) \o <<47>> \o Digits(d.f2) \o <<47>> \o Digits(d.year)
    ELSE Digits(d.year) \o <<45>> \o TwoDigits(d.f1) \o <<45>> \o TwoDigits(d.f2)
time_str(t) ==
    Digits(t.hour) \o <<58>> \o TwoDigits(t.minute)
    \o (IF t.mer = "AM" THEN <<32, 65, 77>>
        ELSE IF t.mer = "PM" THEN <<32, 80, 77>> ELSE <<>>)
LineText(line) ==
    IF line.date.shape = "none" THEN line.message
    ELSE date_str(line.date) \o <<44, 32>> \o time_str(line.time) \o <<32, 45, 32>>
         \o (IF line.sep = "space" THEN line.user \o <<58, 32>> \o line.message
             ELSE IF line.sep = "eol" THEN line.user \o <<58>>
             ELSE line.message)

\* whether the pattern matches from the start of line i: the line starts
\* with a date and a time, and a colon with whitespace after it follows
StartsMatch(c, i) == c[i].date.shape # "none" /\ c[i].sep \in {"space", "eol"}

\* the lines a match from line i takes up: with the colon at the end of the
\* line, \s is the newline and (.*)$ is the whole of the next line
Span(c, i) == IF c[i].sep = "eol" /\ i < Len(c) THEN 2 ELSE 1

\* the lines at which the matches of findall start: a match starts where
\* the one before it ended
RECURSIVE MatchStarts(_, _)
MatchStarts(c, i) ==
    IF i > Len(c) THEN <<>>
    ELSE IF StartsMatch(c, i) THEN <<i>> \o MatchStarts(c, i + Span(c, i))
    ELSE MatchStarts(c, i + 1)

\* pattern.findall(content): the groups of each match, in source order
pattern_findall(c) ==
    LET starts == MatchStarts(c, 1)
    IN [j \in 1..Len(starts) |->
           LET i == starts[j]
           IN [date_str |-> c[i].date,
               time_str |-> c[i].time,
               user |-> c[i].user,
               message |-> IF c[i].sep = "space" THEN c[i].message
                           ELSE IF i < Len(c) THEN LineText(c[i + 1]) ELSE <<>>]]

\* the layouts of date_formats: the order of the date fields, the digits of
\* the year and the clock
date_formats_month_first ==
    <<[order |-> "mdy", ydigits |-> 4, clock |-> 12],
      [order |-> "mdy", ydigits |-> 2, clock |-> 12],
      [order |-> "dmy", ydigits |-> 4, clock |-> 12],
      [order |-> "dmy", ydigits |-> 2, clock |-> 12],
      [order |-> "ymd", ydigits |-> 4, clock |-> 24],
      [order |-> "mdy", ydigits |-> 4, clock |-> 24],
      [order |-> "dmy", ydigits |-> 4, clock |-> 24]>>

date_formats ==
    <<[order |-> "dmy", ydigits |-> 4, clock |-> 12],     \* %d/%m/%Y, %I:%M %p
      [order |-> "dmy", ydigits |-> 2, clock |-> 12],     \* %d/%m/%y, %I:%M %p
      [order |-> "mdy", ydigits |-> 4, clock |-> 12],     \* %m/%d/%Y, %I:%M %p
      [order |-> "mdy", ydigits |-> 2, clock |-> 12],     \* %m/%d/%y, %I:%M %p
      [order |-> "ymd", ydigits |-> 4, clock |-> 24],     \* %Y-%m-%d, %H:%M
      [order |-> "dmy", ydigits |-> 4, clock |-> 24],     \* %d/%m/%Y, %H:%M
      [order |-> "mdy", ydigits |-> 4, clock |-> 24]>>    \* %m/%d/%Y, %H:%M

\* hour of the day of a clock time: 12 AM is 0, 12 PM is 12
hour24(t) ==
    IF t.mer = "" THEN t.hour ELSE (t.hour % 12) + (IF t.mer = "PM" THEN 12 ELSE 0)

\* year, month and day as the field order reads them off a date; %y reads
\* 00-68 as 2000-2068 and 69-99 as 1969-1999
FieldsAs(d, order) ==
    LET y == IF Len(Digits(d.year)) = 2
             THEN (IF d.year <= 68 THEN 2000 + d.year ELSE 1900 + d.year)
             ELSE d.year
    IN IF order = "dmy" THEN [y |-> y, m |-> d.f2, d |-> d.f1]
       ELSE [y |-> y, m |-> d.f1, d |-> d.f2]

\* whether pd.to_datetime(datetime_str, format = fmt) returns: the whole
\* string has the layout's shape and its fields are a date and a time
strptime_ok(d, t, fmt) ==
    /\ d.shape = (IF fmt.order = "ymd" THEN "iso" ELSE "slash")
    /\ Len(Digits(d.year)) = fmt.ydigits
    /\ IF fmt.clock = 12 THEN t.mer # "" /\ t.hour \in 1..12
                         ELSE t.mer = "" /\ t.hour \in 0..23
    /\ t.minute \in 0..59
    /\ LET r == FieldsAs(d, fmt.order)
       IN ValidDate(r.y, r.m, r.d) /\ InBounds(r.y)

to_timestamp(r, t) == HM(DayNumber(r.y, r.m, r.d), hour24(t), t.minute)

\* pd.to_datetime(datetime_str, dayfirst = True, errors = 'coerce') on a
\* string no layout took: dateutil reads three numbers with the year first
\* as year, day, month when the last is at most 12, else as year, month,
\* day; with the year last as day, month, year when the first exceeds 12
\* or the second does not, else as month, day, year (first number at most
\* 31).  Two digits of year are of this century.  An hour next to AM or PM
\* is 0 to 12.  What is no date or time, or out of bounds, becomes NaT.
to_datetime_dayfirst(d, t) ==
    LET y == IF Len(Digits(d.year)) = 2 THEN 2000 + d.year ELSE d.year
        r == IF d.shape = "iso"
             THEN (IF d.f2 <= 12 THEN [y |-> y, m |-> d.f2, d |-> d.f1]
                   ELSE [y |-> y, m |-> d.f1, d |-> d.f2])
             ELSE (IF d.f1 > 12 \/ d.f2 <= 12 THEN [y |-> y, m |-> d.f2, d |-> d.f1]
                   ELSE [y |-> y, m |-> d.f1, d |-> d.f2])
    IN IF /\ ValidDate(r.y, r.m, r.d) /\ InBounds(r.y)
          /\ t.minute \in 0..59
          /\ IF t.mer = "" THEN t.hour \in 0..23 ELSE t.hour \in 0..12
       THEN to_timestamp(r, t)
       ELSE NaT

\* the timestamp of a match: the first layout of date_formats that parses
\* datetime_str, and the lenient parse when none does
parse_timestamp(d, t) ==
    LET hits == {i \in 1..Len(date_formats) : strptime_ok(d, t, date_formats[i])}
    IN IF hits # {}
       THEN LET i == CHOOSE h \in hits : \A g \in hits : h <= g
            IN to_timestamp(FieldsAs(d, date_formats[i].order), t)
       ELSE to_datetime_dayfirst(d, t)

\* str.isspace() of one character
IsSpace(ch) ==
    ch \in {9, 10, 11, 12, 13, 28, 29, 30, 31, 32, 133, 160, 5760, 8232, 8233,
            8239, 8287, 12288} \/ ch \in 8192..8202

\* str.strip()
RECURSIVE lstrip(_)
lstrip(s) == IF s # <<>> /\ IsSpace(Head(s)) THEN lstrip(Tail(s)) ELSE s
RECURSIVE rstrip(_)
rstrip(s) ==
    IF s # <<>> /\ IsSpace(s[Len(s)]) THEN rstrip(SubSeq(s, 1, Len(s) - 1)) ELSE s
strip(s) == rstrip(lstrip(s))

\* the messages list after the loop over the matches
parsed_messages(c) ==
    LET matches == pattern_findall(c)
        kept == SelectSeq(matches,
                          LAMBDA m : parse_timestamp(m.date_str, m.time_str) # NaT)
    IN [i \in 1..Len(kept) |->
           [timestamp |-> parse_timestamp(kept[i].date_str, kept[i].time_str),
            user |-> strip(kept[i].user),
            message |-> strip(kept[i].message)]]

Err_NoMessages == "ValueError: No messages found in chat file"
Err_NSamples == "ValueError: n_samples should be >= n_clusters"
Err_Csv == "OSError: to_csv"
Err_Pdf == "Exception: generate_pdf_report"

\* parse_whatsapp_chat without its check of df.empty
parse_unchecked(c) == [raised |-> NoError, df |-> parsed_messages(c)]

\* parse_whatsapp_chat: the DataFrame, or the exception raised
parse_whatsapp_chat(c) ==
    LET messages == parsed_messages(c)
    IN IF messages = <<>>
       THEN [raised |-> Err_NoMessages, df |-> <<>>]
       ELSE [raised |-> NoError, df |-> messages]

(***************************************************************************)
(* features.py                                                             *)
(***************************************************************************)
Users(d) == {d[i].user : i \in 1..Len(d)}

\* a grouping that leaves groupby('user') out: every user gets the whole frame
RowsOf_whole_frame(d, u) == d

\* the rows of user u, in the order of d
RowsOf(d, u) == SelectSeq(d, LAMBDA r : r.user = u)

\* a table is a function author -> row; a row is a record of columns
MissingRow(cols) == [c \in cols |-> NaN]

\* DataFrame.merge(on='user', how='outer'): cells of absent rows are NaN
merge_outer(t1, cols1, t2, cols2) ==
    [u \in DOMAIN t1 \cup DOMAIN t2 |->
        (IF u \in DOMAIN t1 THEN t1[u] ELSE MissingRow(cols1))
        @@ (IF u \in DOMAIN t2 THEN t2[u] ELSE MissingRow(cols2))]

\* DataFrame.merge(on='user', how='left')
merge_left(t1, t2, cols2) ==
    [u \in DOMAIN t1 |->
        t1[u] @@ (IF u \in DOMAIN t2 THEN t2[u] ELSE MissingRow(cols2))]

\* a fillna(0) that was left out
fillna_left_out(x) == x

\* Series.fillna(0) on one cell, DataFrame.fillna(0) on a table
fillna0(x) == IF IsNaN(x) THEN Zero ELSE x
fillna0_table(t) == [u \in DOMAIN t |-> [c \in DOMAIN t[u] |-> fillna0(t[u][c])]]

str_len(m) == Len(m)
str_count(m, ch) == Cardinality({i \in 1..Len(m) : m[i] = ch})

LengthCols == {"avg_length", "median_length", "total_chars"}
calculate_message_length_features(d) ==
    [u \in Users(d) |->
        LET lens == [i \in 1..Len(RowsOf(d, u)) |-> str_len(RowsOf(d, u)[i].message)]
        IN [avg_length |-> Mean(lens),
            median_length |-> Median(lens),
            total_chars |-> Rat(SumSeq(lens), 1)]]

\* timestamp.dt.hour and timestamp.dt.date
dt_hour(ts) == (ts \div 60) % 24
dt_date(ts) == ts \div 1440

\* night_mask with the evening bound excluded: (hour > 22) | (hour < 6)
night_mask_after_22(ts) == dt_hour(ts) > 22 \/ dt_hour(ts) < 6

\* night_mask: (hour >= 22) | (hour < 6)
night_mask(ts) == dt_hour(ts) >= 22 \/ dt_hour(ts) < 6

\* consecutive differences of a sequence of timestamps (the first is NaT and
\* takes no part in the mean)
Diffs(ts) == [i \in 1..(Len(ts) - 1) |-> ts[i + 1] - ts[i]]

TemporalCols == {"messages_per_day", "avg_response_time_hours", "night_activity_ratio"}
calculate_temporal_features(d, order) ==
    LET df_sorted == Pick(d, order)
        avg_messages_per_day ==
            [u \in Users(d) |->
                LET rows == RowsOf(d, u)
                    dates == {dt_date(rows[i].timestamp) : i \in 1..Len(rows)}
                IN [messages_per_day |-> Rat(Len(rows), Cardinality(dates))]]
        avg_response_time ==
            [u \in Users(d) |->
                LET rows == RowsOf(df_sorted, u)
                    ts == [i \in 1..Len(rows) |-> rows[i].timestamp]
                IN [avg_response_time_hours |-> fillna0(RDivInt(Mean(Diffs(ts)), 60))]]
        night_rows == SelectSeq(d, LAMBDA r : night_mask(r.timestamp))
        \* df[night_mask].groupby('user').size() / df.groupby('user').size():
        \* NaN where the numerator has no entry for the user
        night_activity ==
            [u \in Users(d) |->
                [night_activity_ratio |->
                    fillna0(IF u \in Users(night_rows)
                            THEN Rat(Len(RowsOf(night_rows, u)), Len(RowsOf(d, u)))
                            ELSE NaN)]]
    IN merge_left(merge_left(avg_messages_per_day, avg_response_time,
                             {"avg_response_time_hours"}),
                  night_activity, {"night_activity_ratio"})

\* the classes of emoji_pattern
IsEmojiChar(ch) ==
    \/ ch \in 128512..128591     \* U+1F600-U+1F64F
    \/ ch \in 127744..128511     \* U+1F300-U+1F5FF
    \/ ch \in 128640..128767     \* U+1F680-U+1F6FF
    \/ ch \in 127456..127487     \* U+1F1E0-U+1F1FF
    \/ ch \in 9986..10160        \* U+2702-U+27B0
    \/ ch \in 9410..127569       \* U+24C2-U+1F251

\* len(emoji_pattern.findall(x)): the pattern is a class followed by +, so
\* each maximal run of class characters is one match
emoji_count(m) ==
    Cardinality({i \in 1..Len(m) :
                    IsEmojiChar(m[i]) /\ (i = 1 \/ ~IsEmojiChar(m[i - 1]))})

\* str.isupper() of one character (Basic Latin and Latin-1 capitals)
IsUpperChar(ch) == ch \in 65..90 \/ ch \in 192..214 \/ ch \in 216..222

\* sum(1 for c in x if c.isupper()) / max(len(x), 1)
uppercase_ratio_of(m) ==
    LET n == Cardinality({i \in 1..Len(m) : IsUpperChar(m[i])})
    IN Rat(n, IF str_len(m) > 1 THEN str_len(m) ELSE 1)

EmotionalCols == {"avg_exclamations", "avg_questions", "avg_emojis", "uppercase_ratio"}
calculate_emotional_features(d) ==
    [u \in Users(d) |->
        LET rows == RowsOf(d, u)
            n == Len(rows)
        IN [avg_exclamations |-> Mean([i \in 1..n |-> str_count(rows[i].message, 33)]),
            avg_questions |-> Mean([i \in 1..n |-> str_count(rows[i].message, 63)]),
            avg_emojis |-> Mean([i \in 1..n |-> emoji_count(rows[i].message)]),
            uppercase_ratio |-> RMean([i \in 1..n |-> uppercase_ratio_of(rows[i].message)])]]

\* the character class that follows "://" in url_pattern:
\* [a-zA-Z] | [0-9] | [$-_@.&+] | [!*\(\),] (the range $-_ is U+0024-U+005F)
IsUrlChar(ch) == ch \in 97..122 \/ ch \in 36..95 \/ ch = 33

\* whether m has, from position i on, the code points of s
HasAt(m, i, s) ==
    /\ i + Len(s) - 1 <= Len(m)
    /\ \A j \in 1..Len(s) : m[i + j - 1] = s[j]

\* bool(url_pattern.search(x))
has_link(m) ==
    \E i \in 1..Len(m) :
        \/ /\ HasAt(m, i, <<104, 116, 116, 112, 58, 47, 47>>)        \* http://
           /\ i + 7 <= Len(m) /\ IsUrlChar(m[i + 7])
        \/ /\ HasAt(m, i, <<104, 116, 116, 112, 115, 58, 47, 47>>)   \* https://
           /\ i + 8 <= Len(m) /\ IsUrlChar(m[i + 8])

LinkCols == {"total_links", "link_sharing_ratio"}
calculate_link_sharing_features(d) ==
    [u \in Users(d) |->
        LET rows == RowsOf(d, u)
            flags == [i \in 1..Len(rows) |-> IF has_link(rows[i].message) THEN 1 ELSE 0]
        IN [total_links |-> Rat(SumSeq(flags), 1),
            link_sharing_ratio |-> Mean(flags)]]

\* is_conversation_start without the (index == 0) alternative
is_conversation_start_by_gap_only(sorted, i) ==
    i > 1 /\ sorted[i].timestamp - sorted[i - 1].timestamp > 60

\* is_conversation_start with a gap of one hour counted as a start
is_conversation_start_from_one_hour(sorted, i) ==
    \/ i = 1
    \/ i > 1 /\ sorted[i].timestamp - sorted[i - 1].timestamp >= 60

\* is_conversation_start of row i of the sorted frame:
\* (time_diff > 1 hour) | (index == 0); the first row's time_diff is NaT
is_conversation_start(sorted, i) ==
    \/ i = 1
    \/ i > 1 /\ sorted[i].timestamp - sorted[i - 1].timestamp > 60

InitiationCols == {"total_messages", "initiations", "initiation_ratio"}
calculate_conversation_initiation_features(d, order) ==
    LET df_sorted == Pick(d, order)
        starts == {i \in 1..Len(df_sorted) : is_conversation_start(df_sorted, i)}
        \* groupby('user').size() over the starting rows: only their users
        initiations ==
            [u \in {df_sorted[i].user : i \in starts} |->
                [initiations |->
                    Rat(Cardinality({i \in starts : df_sorted[i].user = u}), 1)]]
        total_messages ==
            [u \in Users(d) |-> [total_messages |-> Rat(Len(RowsOf(d, u)), 1)]]
        merged == merge_left(total_messages, initiations, {"initiations"})
    IN [u \in DOMAIN merged |->
           LET n == fillna0(merged[u].initiations)
           IN [total_messages |-> merged[u].total_messages,
               initiations |-> n,
               initiation_ratio |-> RDivInt(n, merged[u].total_messages[1])]]

\* extract_all_features; order is the row order sort_values('timestamp') gave
extract_all_features(d, order) ==
    LET length_features == calculate_message_length_features(d)
        temporal_features == calculate_temporal_features(d, order)
        emotional_features == calculate_emotional_features(d)
        link_features == calculate_link_sharing_features(d)
        initiation_features == calculate_conversation_initiation_features(d, order)
        f1 == merge_outer(length_features, LengthCols, temporal_features, TemporalCols)
        f2 == merge_outer(f1, LengthCols \cup TemporalCols,
                          emotional_features, EmotionalCols)
        f3 == merge_outer(f2, LengthCols \cup TemporalCols \cup EmotionalCols,
                          link_features, LinkCols)
        f4 == merge_outer(f3, LengthCols \cup TemporalCols \cup EmotionalCols
                                \cup LinkCols,
                          initiation_features, InitiationCols)
    IN fillna0_table(f4)

\* a sort_values that leaves the frame in the order of the source
sort_values_left_out(d) == {[i \in 1..Len(d) |-> i]}

\* the orders DataFrame.sort_values('timestamp') can return: its default
\* sort is not stable, so rows with equal timestamps come in any order
sort_values_timestamp(d) ==
    SortedOrders([i \in 1..Len(d) |-> d[i].timestamp], 1..Len(d))

(***************************************************************************)
(* clustering.py                                                           *)
(***************************************************************************)
feature_columns ==
    <<"avg_length", "median_length", "messages_per_day", "avg_response_time_hours",
      "night_activity_ratio", "avg_exclamations", "avg_questions", "avg_emojis",
      "uppercase_ratio", "link_sharing_ratio", "initiation_ratio">>

\* prepare_features_for_clustering: the matrix X of the feature columns, one
\* row per author.  StandardScaler maps each column by x -> (x - mean) / scale
\* with scale > 0, so two rows of X are equal exactly when their scaled rows
\* are; the rows are kept unscaled here.
prepare_features_for_clustering(t) ==
    [u \in DOMAIN t |-> [j \in 1..Len(feature_columns) |-> t[u][feature_columns[j]]]]

Range(f) == {f[x] : x \in DOMAIN f}
MinInt(a, b) == IF a < b THEN a ELSE b

\* KMeans(n_clusters = k).fit_predict(X) of scikit-learn: it raises when there
\* are fewer rows than clusters; otherwise each row gets the index in 0..k-1
\* of its nearest centre, so equal rows get equal labels, and the k centres,
\* seeded on distinct rows, leave no cluster empty while there are k distinct
\* rows.  Which of these labellings comes out depends on the seed.
fit_predict(X, k) ==
    IF Cardinality(DOMAIN X) < k
    THEN [raised |-> Err_NSamples, labels |-> {}]
    ELSE [raised |-> NoError,
          labels |-> {l \in [DOMAIN X -> 0..(k - 1)] :
                        /\ \A u, v \in DOMAIN X : X[u] = X[v] => l[u] = l[v]
                        /\ Cardinality(Range(l)) = MinInt(k, Cardinality(Range(X)))}]

\* a clustering that, given fewer rows than clusters, quietly makes as many
\* clusters as there are rows
perform_clustering_truncating(X, k, seed, memo) ==
    [raised |-> NoError,
     labels |-> {l \in [DOMAIN X -> 0..(MinInt(k, Cardinality(DOMAIN X)) - 1)] :
                   /\ \A u, v \in DOMAIN X : X[u] = X[v] => l[u] = l[v]
                   /\ Cardinality(Range(l)) = MinInt(k, Cardinality(Range(X)))}]

\* a clustering that numbers its clusters from 1
perform_clustering_from_one(X, k, seed, memo) ==
    IF Cardinality(DOMAIN X) < k
    THEN [raised |-> Err_NSamples, labels |-> {}]
    ELSE [raised |-> NoError,
          labels |-> {l \in [DOMAIN X -> 1..k] :
                        /\ \A u, v \in DOMAIN X : X[u] = X[v] => l[u] = l[v]
                        /\ Cardinality(Range(l)) = MinInt(k, Cardinality(Range(X)))}]

\* a clustering that builds KMeans without random_state: every run draws its
\* own seed
perform_clustering_unseeded(X, k, seed, memo) == fit_predict(X, k)

\* perform_clustering: KMeans(n_clusters, random_state, n_init = 10) and its
\* fit_predict.  With an integer random_state the outcome is a function of
\* the matrix, k and the seed: memo holds that function as far as it has
\* been evaluated, and a run on an argument met before repeats its outcome.
perform_clustering(X, k, seed, memo) ==
    LET r == fit_predict(X, k)
    IN IF r.raised = NoError /\ <<X, k, seed>> \in DOMAIN memo
       THEN [raised |-> NoError, labels |-> {memo[<<X, k, seed>>]}]
       ELSE r

\* assign_clusters: the frame with the column 'cluster' added
with_cluster(t, labels) == [u \in DOMAIN t |-> t[u] @@ [cluster |-> labels[u]]]

(***************************************************************************)
(* profiling.py                                                            *)
(***************************************************************************)
DEFAULT_CLUSTER_NAMES ==
    (0 :> "Regular Participants") @@ (1 :> "Active Conversationalists")
    @@ (2 :> "Information Broadcasters") @@ (3 :> "Silent Observers")
    @@ (4 :> "Night Owls")

\* cluster_names: None, or a dict
NoMapping == [kind |-> "None"]
Dict(m) == [kind |-> "dict", map |-> m]

\* f"Cluster {cluster_id}"
GenericName(cluster_id) == "Cluster " \o ToString(cluster_id)

\* a get_cluster_name that looks a label missing from the custom mapping up
\* in the default names
get_cluster_name_with_fallback(cluster_id, names) ==
    IF names.kind = "dict" /\ cluster_id \in DOMAIN names.map
    THEN names.map[cluster_id]
    ELSE IF cluster_id \in DOMAIN DEFAULT_CLUSTER_NAMES
         THEN DEFAULT_CLUSTER_NAMES[cluster_id] ELSE GenericName(cluster_id)

get_cluster_name(cluster_id, names) ==
    IF names.kind = "dict"
    THEN IF cluster_id \in DOMAIN names.map
         THEN names.map[cluster_id] ELSE GenericName(cluster_id)
    ELSE IF cluster_id \in DOMAIN DEFAULT_CLUSTER_NAMES
         THEN DEFAULT_CLUSTER_NAMES[cluster_id] ELSE GenericName(cluster_id)

\* calculate_influence_score with its caps and its final clamp left out
influence_unguarded(features) ==
    LET activity_score == RDivInt(features.messages_per_day, 5)
        response_score == RSub(One, RDivInt(features.avg_response_time_hours, 24))
        initiation_score == RMul(features.initiation_ratio, <<10, 1>>)
    IN RAdd(RAdd(RMul(activity_score, <<4, 10>>), RMul(response_score, <<3, 10>>)),
            RMul(initiation_score, <<3, 10>>))

\* calculate_influence_score with the weights of activity and of
\* responsiveness exchanged
influence_weights_exchanged(features) ==
    LET activity_score == PyMin(RDivInt(features.messages_per_day, 5), One)
        response_score ==
            RSub(One, PyMin(RDivInt(features.avg_response_time_hours, 24), One))
        initiation_score == PyMin(RMul(features.initiation_ratio, <<10, 1>>), One)
        influence == RAdd(RAdd(RMul(activity_score, <<3, 10>>),
                               RMul(response_score, <<4, 10>>)),
                          RMul(initiation_score, <<3, 10>>))
    IN PyMin(PyMax(influence, Zero), One)

calculate_influence_score(features) ==
    LET messages_per_day == features.messages_per_day
        initiation_ratio == features.initiation_ratio
        avg_response_time == features.avg_response_time_hours
        activity_score == PyMin(RDivInt(messages_per_day, 5), One)
        response_score == RSub(One, PyMin(RDivInt(avg_response_time, 24), One))
        initiation_score == PyMin(RMul(initiation_ratio, <<10, 1>>), One)
        influence == RAdd(RAdd(RMul(activity_score, <<4, 10>>),
                               RMul(response_score, <<3, 10>>)),
                          RMul(initiation_score, <<3, 10>>))
    IN PyMin(PyMax(influence, Zero), One)

\* profile_parts with a response time of two hours counted as quick
profile_clauses_quick_at_two_hours(features, cluster_id) ==
    LET activity_level ==
            IF RGe(features.messages_per_day, <<4, 1>>)
               \/ RGe(features.total_messages, <<500, 1>>)
            THEN "highly active"
            ELSE IF RGe(features.messages_per_day, <<2, 1>>)
                    \/ RGe(features.total_messages, <<100, 1>>)
            THEN "moderately active"
            ELSE "low activity"
        emotional_score ==
            RAdd(RAdd(features.avg_emojis, RMul(features.avg_exclamations, <<1, 2>>)),
                 RMul(features.uppercase_ratio, <<10, 1>>))
        influence_score == calculate_influence_score(features)
        parts ==
            <<<<"This user belongs to the '"
                \o get_cluster_name(cluster_id, NoMapping) \o "' group", ".">>,
              <<"This user is " \o activity_level, ",">>,
              <<IF RGe(features.avg_length, <<100, 1>>)
                THEN "writes long, detailed messages" ELSE "prefers short messages", ",">>,
              <<IF RGe(emotional_score, <<2, 1>>)
                THEN "emotionally expressive" ELSE "emotionally reserved", ",">>,
              <<IF RGe(<<2, 1>>, features.avg_response_time_hours)
                THEN "responds quickly" ELSE "responds slowly", ",">>>>
            \o (IF RLt(<<1, 10>>, features.link_sharing_ratio)
                THEN <<<<"often shares links or resources", ",">>>> ELSE <<>>)
            \o (IF RLt(<<3, 10>>, features.night_activity_ratio)
                THEN <<<<"more active at night", ",">>>> ELSE <<>>)
        last == parts[Len(parts)]
    IN IF RLt(<<1, 10>>, features.initiation_ratio) \/ RLt(<<95, 100>>, influence_score)
       THEN parts \o <<<<"frequently initiates conversations and influences group flow",
                        ".">>>>
       ELSE IF last[2] = ","
       THEN [parts EXCEPT ![Len(parts)] = <<last[1], ".">>]
       ELSE parts \o <<<<"", ".">>>>

\* profile_parts that end the sentence with a part "." of its own
profile_clauses_period_appended(features, cluster_id) ==
    LET activity_level ==
            IF RGe(features.messages_per_day, <<4, 1>>)
               \/ RGe(features.total_messages, <<500, 1>>)
            THEN "highly active"
            ELSE IF RGe(features.messages_per_day, <<2, 1>>)
                    \/ RGe(features.total_messages, <<100, 1>>)
            THEN "moderately active"
            ELSE "low activity"
        emotional_score ==
            RAdd(RAdd(features.avg_emojis, RMul(features.avg_exclamations, <<1, 2>>)),
                 RMul(features.uppercase_ratio, <<10, 1>>))
        influence_score == calculate_influence_score(features)
        parts ==
            <<<<"This user belongs to the '"
                \o get_cluster_name(cluster_id, NoMapping) \o "' group", ".">>,
              <<"This user is " \o activity_level, ",">>,
              <<IF RGe(features.avg_length, <<100, 1>>)
                THEN "writes long, detailed messages" ELSE "prefers short messages", ",">>,
              <<IF RGe(emotional_score, <<2, 1>>)
                THEN "emotionally expressive" ELSE "emotionally reserved", ",">>,
              <<IF RLt(features.avg_response_time_hours, <<2, 1>>)
                THEN "responds quickly" ELSE "responds slowly", ",">>>>
            \o (IF RLt(<<1, 10>>, features.link_sharing_ratio)
                THEN <<<<"often shares links or resources", ",">>>> ELSE <<>>)
            \o (IF RLt(<<3, 10>>, features.night_activity_ratio)
                THEN <<<<"more active at night", ",">>>> ELSE <<>>)
        last == parts[Len(parts)]
    IN IF RLt(<<1, 10>>, features.initiation_ratio) \/ RLt(<<95, 100>>, influence_score)
       THEN parts \o <<<<"frequently initiates conversations and influences group flow",
                        ".">>>>
       ELSE parts \o <<<<"", ".">>>>

\* generate_behavior_profile: profile_parts as it stands before the join, each
\* part a pair <<text, trailing punctuation>>
profile_clauses(features, cluster_id) ==
    LET activity_level ==
            IF RGe(features.messages_per_day, <<4, 1>>)
               \/ RGe(features.total_messages, <<500, 1>>)
            THEN "highly active"
            ELSE IF RGe(features.messages_per_day, <<2, 1>>)
                    \/ RGe(features.total_messages, <<100, 1>>)
            THEN "moderately active"
            ELSE "low activity"
        emotional_score ==
            RAdd(RAdd(features.avg_emojis, RMul(features.avg_exclamations, <<1, 2>>)),
                 RMul(features.uppercase_ratio, <<10, 1>>))
        influence_score == calculate_influence_score(features)
        parts ==
            <<<<"This user belongs to the '"
                \o get_cluster_name(cluster_id, NoMapping) \o "' group", ".">>,
              <<"This user is " \o activity_level, ",">>,
              <<IF RGe(features.avg_length, <<100, 1>>)
                THEN "writes long, detailed messages" ELSE "prefers short messages", ",">>,
              <<IF RGe(emotional_score, <<2, 1>>)
                THEN "emotionally expressive" ELSE "emotionally reserved", ",">>,
              <<IF RLt(features.avg_response_time_hours, <<2, 1>>)
                THEN "responds quickly" ELSE "responds slowly", ",">>>>
            \o (IF RLt(<<1, 10>>, features.link_sharing_ratio)
                THEN <<<<"often shares links or resources", ",">>>> ELSE <<>>)
            \o (IF RLt(<<3, 10>>, features.night_activity_ratio)
                THEN <<<<"more active at night", ",">>>> ELSE <<>>)
        last == parts[Len(parts)]
    IN IF RLt(<<1, 10>>, features.initiation_ratio) \/ RLt(<<95, 100>>, influence_score)
       THEN parts \o <<<<"frequently initiates conversations and influences group flow",
                        ".">>>>
       ELSE IF last[2] = ","
       THEN [parts EXCEPT ![Len(parts)] = <<last[1], ".">>]
       ELSE parts \o <<<<"", ".">>>>

\* sep.join(parts) of strings
RECURSIVE str_join(_, _)
str_join(sep, parts) ==
    IF parts = <<>> THEN ""
    ELSE IF Len(parts) = 1 THEN parts[1]
    ELSE parts[1] \o sep \o str_join(sep, Tail(parts))

\* the places of s where old stands
occurrences(s, old) ==
    {i \in 1..(Len(s) - Len(old) + 1) : SubSeq(s, i, i + Len(old) - 1) = old}

\* the occurrences met by the scan from the left: an occurrence counts
\* exactly if none that counts overlaps it from the left
scanned(s, old) ==
    CHOOSE S \in SUBSET occurrences(s, old) :
        \A i \in occurrences(s, old) :
            i \in S <=> \A j \in S : j >= i \/ j + Len(old) <= i

\* s from place k on, with the occurrences in at replaced by new
RECURSIVE replaced_from(_, _, _, _, _)
replaced_from(s, old, new, at, k) ==
    LET ahead == {p \in at : p >= k}
    IN IF ahead = {} THEN SubSeq(s, k, Len(s))
       ELSE LET p == CHOOSE q \in ahead : \A r \in ahead : q <= r
            IN SubSeq(s, k, p - 1) \o new
               \o replaced_from(s, old, new, at, p + Len(old))

\* s.replace(old, new): the occurrences of old from the left, none overlapping
\* another, each replaced by new
str_replace(s, old, new) == replaced_from(s, old, new, scanned(s, old), 1)

\* generate_behavior_profile: the parts joined by a space, then the three
\* replacements of the clean-up
generate_behavior_profile(features, cluster_id) ==
    LET parts == profile_clauses(features, cluster_id)
        profile == str_join(" ", [i \in 1..Len(parts) |-> parts[i][1] \o parts[i][2]])
    IN str_replace(str_replace(str_replace(profile, " ,", ","), "..", "."), ",.", ".")

\* generate_profiles: the frame with influence_score and behavior_profile added
generate_profiles(t) ==
    [u \in DOMAIN t |->
        t[u] @@ [influence_score |-> calculate_influence_score(t[u]),
                 behavior_profile |-> generate_behavior_profile(t[u], t[u].cluster)]]

(***************************************************************************)
(* report.py and the tables of analyze_chat_streamlit                      *)
(***************************************************************************)
\* round(2) of a non-negative cell: to the nearest hundredth, a tie to the
\* even hundredth
Round2(x) ==
    IF IsNaN(x) THEN NaN
    ELSE LET q == (x[1] * 100) \div x[2]
             r == (x[1] * 100) % x[2]
         IN IF 2 * r < x[2] THEN Rat(q, 100)
            ELSE IF 2 * r > x[2] THEN Rat(q + 1, 100)
            ELSE IF q % 2 = 0 THEN Rat(q, 100) ELSE Rat(q + 1, 100)

\* the set s as a sequence, in some order
RECURSIVE SetToSeq(_)
SetToSeq(s) ==
    IF s = {} THEN <<>>
    ELSE LET x == CHOOSE y \in s : TRUE IN <<x>> \o SetToSeq(s \ {x})

\* final_report of analyze_chat_streamlit: the report columns, the other
\* feature columns and cluster_name, one row per row of the frame
final_report_of(t, names) ==
    [u \in DOMAIN t |->
        t[u] @@ [cluster_name |-> get_cluster_name(t[u].cluster, names)]]

\* a cluster_summary whose user_count aggregates total_messages by sum
cluster_summary_by_messages(t, names) ==
    [c \in {t[u].cluster : u \in DOMAIN t} |->
        LET members == SetToSeq({u \in DOMAIN t : t[u].cluster = c})
            n == Len(members)
        IN [cluster_name |-> get_cluster_name(c, names),
            user_count |-> SumSeq([i \in 1..n |-> t[members[i]].total_messages[1]]),
            avg_messages_per_day |->
                Round2(RMean([i \in 1..n |-> t[members[i]].messages_per_day])),
            avg_influence_score |->
                Round2(RMean([i \in 1..n |-> t[members[i]].influence_score]))]]

\* cluster_summary of analyze_chat_streamlit: groupby('cluster') gives one row
\* per label that occurs in the frame
cluster_summary_of(t, names) ==
    [c \in {t[u].cluster : u \in DOMAIN t} |->
        LET members == SetToSeq({u \in DOMAIN t : t[u].cluster = c})
            n == Len(members)
        IN [cluster_name |-> get_cluster_name(c, names),
            user_count |-> n,
            avg_messages_per_day |->
                Round2(RMean([i \in 1..n |-> t[members[i]].messages_per_day])),
            avg_influence_score |->
                Round2(RMean([i \in 1..n |-> t[members[i]].influence_score]))]]

\* the paths generate_reports writes to: the defaults for None
csv_path_of(path) == IF path = NoPath THEN "user_behavior_report.csv" ELSE path
pdf_path_of(path) == IF path = NoPath THEN "whatsapp_user_behavior_report.pdf" ELSE path

\* the orders sort_values(column, ascending=False) can give the rows of t:
\* the key never increases, and rows with equal keys come in any order
sort_values_descending(t, key) ==
    LET n == Cardinality(DOMAIN t)
    IN {o \in [1..n -> DOMAIN t] :
          /\ \A i, j \in 1..n : i # j => o[i] # o[j]
          /\ \A i, j \in 1..n : i < j => ~RLt(key[o[i]], key[o[j]])}

\* generate_csv_report rounds influence_score to two decimals and then sorts
\* by the rounded column
csv_rows(t) ==
    sort_values_descending(t, [u \in DOMAIN t |-> Round2(t[u].influence_score)])

\* generate_pdf_report sorts by influence_score as it is
pdf_rows(t) ==
    sort_values_descending(t, [u \in DOMAIN t |-> t[u].influence_score])

\* what the report writers leave in the file: the authors, and the order in
\* which their rows (their sections) stand
csv_written(t, rows) == [kind |-> "csv", users |-> DOMAIN t, rows |-> rows]
pdf_written(t, rows) == [kind |-> "pdf", users |-> DOMAIN t, rows |-> rows]

(***************************************************************************)
(* main.py: analyze_chat and analyze_chat_streamlit, stage by stage        *)
(***************************************************************************)
EntryPoints == {"analyze_chat", "analyze_chat_streamlit"}

Start(c, k, seed, e, names) ==
    /\ content = c
    /\ n_clusters = k
    /\ random_state = seed
    /\ csv_output = NoPath
    /\ pdf_output = NoPath
    /\ cluster_names = names
    /\ entry = e
    /\ pc = "parse"
    /\ df = <<>>
    /\ features_df = <<>>
    /\ error = NoError
    /\ csv_file = NoFile
    /\ pdf_file = NoFile
    /\ result = None
    /\ fitted = <<>>

Init ==
    \E c \in SeqsUpTo(Lines, MaxLines), k \in 1..MaxK, seed \in Seeds,
       e \in EntryPoints :
        Start(c, k, seed, e, NoMapping)

\* the exception leaves the entry point: nothing is returned
Raise(e) ==
    /\ error' = e
    /\ pc' = "raised"

\* df = parse_whatsapp_chat(file)
Parse ==
    /\ pc = "parse"
    /\ LET r == parse_whatsapp_chat(content)
       IN IF r.raised # NoError
          THEN Raise(r.raised) /\ UNCHANGED df
          ELSE df' = r.df /\ pc' = "extract" /\ UNCHANGED error
    /\ UNCHANGED <<args, features_df, csv_file, pdf_file, result, fitted>>

\* features_df = extract_all_features(df)
Extract ==
    /\ pc = "extract"
    /\ \E order \in sort_values_timestamp(df) :
          features_df' = extract_all_features(df, order)
    /\ pc' = "cluster"
    /\ UNCHANGED <<args, df, error, csv_file, pdf_file, result, fitted>>

\* features_df = assign_clusters(features_df, n_clusters, random_state)
Cluster ==
    /\ pc = "cluster"
    /\ LET X == prepare_features_for_clustering(features_df)
           r == perform_clustering(X, n_clusters, random_state, fitted)
       IN IF r.raised # NoError
          THEN Raise(r.raised) /\ UNCHANGED <<features_df, fitted>>
          ELSE /\ \E labels \in r.labels :
                     /\ features_df' = with_cluster(features_df, labels)
                     /\ fitted' = (<<X, n_clusters, random_state>> :> labels) @@ fitted
               /\ pc' = "profile"
               /\ UNCHANGED error
    /\ UNCHANGED <<args, df, csv_file, pdf_file, result>>

\* features_df = generate_profiles(features_df)
Profile ==
    /\ pc = "profile"
    /\ features_df' = generate_profiles(features_df)
    /\ pc' = IF entry = "analyze_chat" THEN "csv" ELSE "tables"
    /\ UNCHANGED <<args, df, error, csv_file, pdf_file, result, fitted>>

\* generate_reports, first half: generate_csv_report writes the file, or
\* to_csv raises (a path that cannot be written, a full disk)
CsvReport ==
    /\ pc = "csv"
    /\ \E ok \in BOOLEAN :
          IF ok
          THEN /\ \E rows \in csv_rows(features_df) :
                     csv_file' = csv_written(features_df, rows)
               /\ pc' = "pdf"
               /\ UNCHANGED error
          ELSE Raise(Err_Csv) /\ UNCHANGED csv_file
    /\ UNCHANGED <<args, df, features_df, pdf_file, result, fitted>>

\* generate_reports, second half: generate_pdf_report builds the document, or
\* raises (reportlab missing and not installable, markup in a name that the
\* Paragraph parser rejects, a path that cannot be written); after it
\* analyze_chat returns features_df
PdfReport ==
    /\ pc = "pdf"
    /\ \E ok \in BOOLEAN :
          IF ok
          THEN /\ \E rows \in pdf_rows(features_df) :
                     pdf_file' = pdf_written(features_df, rows)
               /\ result' = [kind |-> "table", table |-> features_df]
               /\ pc' = "done"
               /\ UNCHANGED error
          ELSE Raise(Err_Pdf) /\ UNCHANGED <<pdf_file, result>>
    /\ UNCHANGED <<args, df, features_df, csv_file, fitted>>

\* analyze_chat_streamlit after generate_profiles: final_report and
\* cluster_summary are built and returned; no file is written
Tables ==
    /\ pc = "tables"
    /\ result' = [kind |-> "tables",
                  final_report |-> final_report_of(features_df, cluster_names),
                  cluster_summary |-> cluster_summary_of(features_df, cluster_names)]
    /\ pc' = "done"
    /\ UNCHANGED <<args, df, features_df, error, csv_file, pdf_file, fitted>>

Next == Parse \/ Extract \/ Cluster \/ Profile \/ CsvReport \/ PdfReport \/ Tables

Spec == Init /\ [][Next]_vars

(***************************************************************************)
(* extract_all_features alone, on a DataFrame handed to it                 *)
(***************************************************************************)
StartFeat(d) ==
    /\ content = <<>>
    /\ n_clusters = 1
    /\ random_state = 42
    /\ csv_output = NoPath
    /\ pdf_output = NoPath
    /\ cluster_names = NoMapping
    /\ entry = "extract_all_features"
    /\ pc = "extract"
    /\ df = d
    /\ features_df = <<>>
    /\ error = NoError
    /\ csv_file = NoFile
    /\ pdf_file = NoFile
    /\ result = None
    /\ fitted = <<>>

Records(authors, times, texts) == [timestamp : times, user : authors, message : texts]

InitFeat ==
    \E d \in SeqsUpTo(Records(FeatAuthors, FeatTimes, FeatTexts), MaxMsgs) :
        d # <<>> /\ StartFeat(d)

NextFeat == Extract

SpecFeat == InitFeat /\ [][NextFeat]_vars

(***************************************************************************)
(* generate_profiles alone, on a clustered feature table handed to it      *)
(***************************************************************************)
\* the values of the columns that the profile and the influence score read,
\* on and beside the thresholds
ProfileRows ==
    [messages_per_day : {<<1, 1>>, <<2, 1>>, <<4, 1>>, <<5, 1>>, <<6, 1>>},
     total_messages : {<<99, 1>>, <<100, 1>>, <<500, 1>>},
     avg_length : {<<99, 1>>, <<100, 1>>},
     emotion : {<<One, One, Zero>>, <<One, <<2, 1>>, Zero>>, <<Zero, Zero, <<1, 5>>>>},
     avg_response_time_hours : {<<1, 1>>, <<2, 1>>, <<4, 1>>, <<24, 1>>, <<30, 1>>},
     link_sharing_ratio : {<<1, 10>>, <<1, 5>>},
     night_activity_ratio : {<<3, 10>>, <<1, 2>>},
     initiation_ratio : {Zero, <<1, 20>>, <<1, 10>>, <<1, 3>>},
     cluster : {0, 5}]

\* the feature row of a choice of values
FeatureRow(v) ==
    [messages_per_day |-> v.messages_per_day,
     total_messages |-> v.total_messages,
     avg_length |-> v.avg_length,
     avg_emojis |-> v.emotion[1],
     avg_exclamations |-> v.emotion[2],
     uppercase_ratio |-> v.emotion[3],
     avg_response_time_hours |-> v.avg_response_time_hours,
     link_sharing_ratio |-> v.link_sharing_ratio,
     night_activity_ratio |-> v.night_activity_ratio,
     initiation_ratio |-> v.initiation_ratio,
     cluster |-> v.cluster]

StartProfile(t) ==
    /\ content = <<>>
    /\ n_clusters = 1
    /\ random_state = 42
    /\ csv_output = NoPath
    /\ pdf_output = NoPath
    /\ cluster_names = NoMapping
    /\ entry = "generate_profiles"
    /\ pc = "profile"
    /\ df = <<>>
    /\ features_df = t
    /\ error = NoError
    /\ csv_file = NoFile
    /\ pdf_file = NoFile
    /\ result = None
    /\ fitted = <<>>

InitProfile == \E v \in ProfileRows : StartProfile("A" :> FeatureRow(v))

NextProfile == Profile

SpecProfile == InitProfile /\ [][NextProfile]_vars

(***************************************************************************)
(* generate_reports alone, on a profiled table handed to it                *)
(***************************************************************************)
\* rows of authors whose influence scores are 0.68, 0.6798, 0.7475 and 0.38:
\* one message; two messages a minute apart over midnight; two messages an
\* hour apart; two messages a day apart
ReportRows ==
    {[messages_per_day |-> One, total_messages |-> One,
      avg_response_time_hours |-> Zero, initiation_ratio |-> One],
     [messages_per_day |-> One, total_messages |-> <<2, 1>>,
      avg_response_time_hours |-> <<1, 60>>, initiation_ratio |-> <<1, 2>>],
     [messages_per_day |-> <<2, 1>>, total_messages |-> <<2, 1>>,
      avg_response_time_hours |-> One, initiation_ratio |-> <<1, 2>>],
     [messages_per_day |-> One, total_messages |-> <<2, 1>>,
      avg_response_time_hours |-> <<24, 1>>, initiation_ratio |-> One]}

\* the feature row of such an author: two-character messages without
\* emoji, links and capitals, sent by day, in cluster 0
ReportRow(v) ==
    v @@ [avg_length |-> <<2, 1>>, avg_emojis |-> Zero, avg_exclamations |-> Zero,
          uppercase_ratio |-> Zero, link_sharing_ratio |-> Zero,
          night_activity_ratio |-> Zero, cluster |-> 0]

StartReport(t) ==
    /\ content = <<>>
    /\ n_clusters = 1
    /\ random_state = 42
    /\ csv_output = NoPath
    /\ pdf_output = NoPath
    /\ cluster_names = NoMapping
    /\ entry = "analyze_chat"
    /\ pc = "csv"
    /\ df = <<>>
    /\ features_df = t
    /\ error = NoError
    /\ csv_file = NoFile
    /\ pdf_file = NoFile
    /\ result = None
    /\ fitted = <<>>

InitReport ==
    \E us \in SUBSET (FeatAuthors \cup {"B"}) :
        /\ us # {}
        /\ \E vs \in [us -> ReportRows] :
              StartReport(generate_profiles([u \in us |-> ReportRow(vs[u])]))

NextReport == CsvReport \/ PdfReport

SpecReport == InitReport /\ [][NextReport]_vars

\* the timestamps of user u in d, as a set of row indices
IdxOf(d, u) == {i \in 1..Len(d) : d[i].user = u}

\* author A sends 3 messages pairwise more than an hour apart, author B sends
\* 2 messages less than an hour apart, and nobody else writes
ThreeAndTwo(d) ==
    /\ Cardinality(IdxOf(d, "A")) = 3
    /\ Cardinality(IdxOf(d, "B")) = 2
    /\ \A i, j \in IdxOf(d, "A") :
          i # j => Abs(d[i].timestamp - d[j].timestamp) > 60
    /\ \A i, j \in IdxOf(d, "B") : Abs(d[i].timestamp - d[j].timestamp) < 60

InitConv ==
    \E d \in [1..5 -> Records(ConvAuthors, ConvTimes, {Txt_hi})] :
        ThreeAndTwo(d) /\ StartFeat(d)

SpecConv == InitConv /\ [][NextFeat]_vars

(***************************************************************************)
(* extract_all_features on messages with and without emoji                 *)
(***************************************************************************)
Txt_3faces == <<128512, 128512, 128512>>     \* three U+1F600 in a row
Txt_2faces == <<128512, 32, 128512>>         \* two U+1F600 with a space between
Txt_cjk == <<20013>>                         \* U+4E2D
Txt_aface == <<97, 128512>>                  \* "a" and U+1F600
EmojiTexts == {Txt_hi, Txt_3faces, Txt_2faces, Txt_cjk, Txt_aface}

\* the i-th message is sent i minutes after 10:00
InitEmoji ==
    \E n \in 1..MaxMsgs :
        \E us \in [1..n -> FeatAuthors], ms \in [1..n -> EmojiTexts] :
            StartFeat([i \in 1..n |->
                         [timestamp |-> HM(0, 10, i), user |-> us[i], message |-> ms[i]]])

SpecEmoji == InitEmoji /\ [][NextFeat]_vars

(***************************************************************************)
(* parse_whatsapp_chat alone, on transcripts of every kind of line         *)
(***************************************************************************)
InitParse ==
    \E c \in SeqsUpTo(ParseLines, MaxParseLines) : Start(c, 1, 42, "analyze_chat", NoMapping)

NextParse == Parse

SpecParse == InitParse /\ [][NextParse]_vars

(***************************************************************************)
(* analyze_chat_streamlit with six clusters and custom cluster names, on a *)
(* transcript of six authors who differ in the length of their message     *)
(***************************************************************************)
Usr_D == <<68>>
Usr_E == <<69>>
Usr_F == <<70>>

NamesTranscript ==
    <<RecordLine(Slash(1, 1, 2024), Clock(10, 0, "AM"), Usr_A, <<104>>),
      RecordLine(Slash(2, 1, 2024), Clock(10, 0, "AM"), Usr_B, <<104, 105>>),
      RecordLine(Slash(3, 1, 2024), Clock(10, 0, "AM"), Usr_C, <<104, 105, 33>>),
      RecordLine(Slash(4, 1, 2024), Clock(10, 0, "AM"), Usr_D, <<104, 105, 33, 33>>),
      RecordLine(Slash(5, 1, 2024), Clock(10, 0, "AM"), Usr_E, <<104, 105, 33, 33, 33>>),
      RecordLine(Slash(6, 1, 2024), Clock(10, 0, "AM"), Usr_F, <<104, 105, 33, 33, 33, 33>>)>>

NameMappings ==
    {NoMapping,
     Dict(<<>>),
     Dict(0 :> "Leaders"),
     Dict((0 :> "Leaders") @@ (5 :> "Lurkers")),
     Dict((1 :> "Regular Participants") @@ (4 :> "Cluster 0"))}

InitNames ==
    \E names \in NameMappings :
        Start(NamesTranscript, 6, 42, "analyze_chat_streamlit", names)

NextNames == Parse \/ Extract \/ Cluster \/ Profile \/ Tables

SpecNames == InitNames /\ [][NextNames]_vars

(***************************************************************************)
(* Two invocations of analyze_chat in one working directory, their steps   *)
(* interleaved.  Every argument and local of Spec is here a function of    *)
(* the invocation; csv_file and pdf_file are the directory's files by      *)
(* path; fitted is shared, KMeans being the same function for both.        *)
(***************************************************************************)
Invocations == {1, 2}

TwoTranscripts ==
    {<<RecordLine(Slash(1, 1, 2024), Clock(10, 0, "AM"), Usr_A, Txt_hi)>>,
     <<RecordLine(Slash(1, 1, 2024), Clock(10, 0, "AM"), Usr_B, Txt_hi)>>,
     <<RecordLine(Slash(1, 1, 2024), Clock(10, 0, "AM"), Usr_A, Txt_hi),
       RecordLine(Slash(1, 1, 2024), Clock(10, 0, "AM"), Usr_B, Txt_hi),
       RecordLine(Slash(2, 1, 2024), Clock(10, 0, "AM"), Usr_B, Txt_hi)>>}

CsvFiles == {csv_path_of(path) : path \in CsvPaths}
PdfFiles == {pdf_path_of(NoPath)}

InitTwo ==
    /\ content \in [Invocations -> TwoTranscripts]
    /\ n_clusters \in [Invocations -> 1..2]
    /\ random_state \in [Invocations -> Seeds]
    /\ csv_output \in [Invocations -> CsvPaths]
    /\ pdf_output = [i \in Invocations |-> NoPath]
    /\ cluster_names = [i \in Invocations |-> NoMapping]
    /\ entry = [i \in Invocations |-> "analyze_chat"]
    /\ pc = [i \in Invocations |-> "parse"]
    /\ df = [i \in Invocations |-> <<>>]
    /\ features_df = [i \in Invocations |-> <<>>]
    /\ error = [i \in Invocations |-> NoError]
    /\ result = [i \in Invocations |-> None]
    /\ csv_file = [f \in CsvFiles |-> NoFile]
    /\ pdf_file = [f \in PdfFiles |-> NoFile]
    /\ fitted = <<>>

RaiseOf(i, e) ==
    /\ error' = [error EXCEPT ![i] = e]
    /\ pc' = [pc EXCEPT ![i] = "raised"]

ParseOf(i) ==
    /\ pc[i] = "parse"
    /\ LET r == parse_whatsapp_chat(content[i])
       IN IF r.raised # NoError
          THEN RaiseOf(i, r.raised) /\ UNCHANGED df
          ELSE /\ df' = [df EXCEPT ![i] = r.df]
               /\ pc' = [pc EXCEPT ![i] = "extract"]
               /\ UNCHANGED error
    /\ UNCHANGED <<args, features_df, csv_file, pdf_file, result, fitted>>

ExtractOf(i) ==
    /\ pc[i] = "extract"
    /\ \E order \in sort_values_timestamp(df[i]) :
          features_df' = [features_df EXCEPT ![i] = extract_all_features(df[i], order)]
    /\ pc' = [pc EXCEPT ![i] = "cluster"]
    /\ UNCHANGED <<args, df, error, csv_file, pdf_file, result, fitted>>

ClusterOf(i) ==
    /\ pc[i] = "cluster"
    /\ LET X == prepare_features_for_clustering(features_df[i])
           r == perform_clustering(X, n_clusters[i], random_state[i], fitted)
       IN IF r.raised # NoError
          THEN RaiseOf(i, r.raised) /\ UNCHANGED <<features_df, fitted>>
          ELSE /\ \E labels \in r.labels :
                     /\ features_df' =
                            [features_df EXCEPT ![i] = with_cluster(features_df[i], labels)]
                     /\ fitted' = (<<X, n_clusters[i], random_state[i]>> :> labels) @@ fitted
               /\ pc' = [pc EXCEPT ![i] = "profile"]
               /\ UNCHANGED error
    /\ UNCHANGED <<args, df, csv_file, pdf_file, result>>

ProfileOf(i) ==
    /\ pc[i] = "profile"
    /\ features_df' = [features_df EXCEPT ![i] = generate_profiles(features_df[i])]
    /\ pc' = [pc EXCEPT ![i] = "csv"]
    /\ UNCHANGED <<args, df, error, csv_file, pdf_file, result, fitted>>

CsvReportOf(i) ==
    /\ pc[i] = "csv"
    /\ \E ok \in BOOLEAN :
          IF ok
          THEN /\ \E rows \in csv_rows(features_df[i]) :
                     csv_file' = [csv_file EXCEPT ![csv_path_of(csv_output[i])] =
                                     csv_written(features_df[i], rows)]
               /\ pc' = [pc EXCEPT ![i] = "pdf"]
               /\ UNCHANGED error
          ELSE RaiseOf(i, Err_Csv) /\ UNCHANGED csv_file
    /\ UNCHANGED <<args, df, features_df, pdf_file, result, fitted>>

PdfReportOf(i) ==
    /\ pc[i] = "pdf"
    /\ \E ok \in BOOLEAN :
          IF ok
          THEN /\ \E rows \in pdf_rows(features_df[i]) :
                     pdf_file' = [pdf_file EXCEPT ![pdf_path_of(pdf_output[i])] =
                                     pdf_written(features_df[i], rows)]
               /\ result' = [result EXCEPT ![i] = [kind |-> "table",
                                                   table |-> features_df[i]]]
               /\ pc' = [pc EXCEPT ![i] = "done"]
               /\ UNCHANGED error
          ELSE RaiseOf(i, Err_Pdf) /\ UNCHANGED <<pdf_file, result>>
    /\ UNCHANGED <<args, df, features_df, csv_file, fitted>>

NextTwo ==
    \E i \in Invocations :
        \/ ParseOf(i) \/ ExtractOf(i) \/ ClusterOf(i)
        \/ ProfileOf(i) \/ CsvReportOf(i) \/ PdfReportOf(i)

SpecTwo == InitTwo /\ [][NextTwo]_vars

(***************************************************************************)
(* Properties.                                                             *)
(***************************************************************************)
\* the lines of the transcript that become records
RecordLines ==
    {i \in Range(MatchStarts(content, 1)) :
        parse_timestamp(content[i].date, content[i].time) # NaT}
\* the distinct authors of the transcript's records
TranscriptAuthors == {strip(content[i].user) : i \in RecordLines}

Ended == pc \in {"done", "raised"}
NoOutput == result = None /\ csv_file = NoFile /\ pdf_file = NoFile
HasColumn(c) == \A u \in DOMAIN features_df : c \in DOMAIN features_df[u]

\* C1: a transcript with no record (no line matches the pattern, or every
\* matching line has an unresolvable timestamp) makes parse raise the
\* empty-result error: the run ends there, before any feature row exists, and
\* returns and writes nothing.
C1_EmptyTranscriptAborts ==
    (RecordLines = {} /\ pc # "parse") =>
        /\ pc = "raised"
        /\ error = Err_NoMessages
        /\ df = <<>>
        /\ features_df = <<>>
        /\ NoOutput

\* C1 happens: a transcript with a line that does not match and a matching
\* line with an unresolvable timestamp has been refused
C1_Witness ==
    /\ pc = "raised"
    /\ error = Err_NoMessages
    /\ \E i, j \in 1..Len(content) : ~StartsMatch(content, i) /\ StartsMatch(content, j)

\* C2: with more clusters asked for than the transcript has distinct authors,
\* the run ends with the clustering stage's n_samples/n_clusters ValueError:
\* no row ever gets a cluster, an influence score or a profile, nothing is
\* returned and no report is written.
C2_TooManyClustersFails ==
    (n_clusters > Cardinality(TranscriptAuthors) /\ TranscriptAuthors # {}) =>
        /\ ~(features_df # <<>> /\ HasColumn("cluster"))
        /\ NoOutput
        /\ pc \in {"parse", "extract", "cluster", "raised"}
        /\ pc = "raised" => error = Err_NSamples

\* C2 happens: two authors, three clusters asked for, the run has failed
C2_Witness ==
    /\ pc = "raised"
    /\ error = Err_NSamples
    /\ Cardinality(TranscriptAuthors) = 2
    /\ n_clusters = 3

\* C3: analyze_chat ends either with every stage done, both reports written
\* and the table returned, or with an error and no output at all.
C3_AllOrNothing ==
    (entry = "analyze_chat" /\ Ended) =>
        \/ /\ pc = "done" /\ error = NoError
           /\ result # None /\ csv_file # NoFile /\ pdf_file # NoFile
        \/ /\ pc = "raised" /\ error # NoError
           /\ NoOutput

\* C4: once parse, extract, cluster and profile have succeeded, the caller of
\* the entry point gets the per-author table, whether or not a report could
\* be written.
C4_TableDespiteReportFailure ==
    (Ended /\ features_df # <<>> /\ HasColumn("behavior_profile")) => result # None

AllColumns == LengthCols \cup TemporalCols \cup EmotionalCols \cup LinkCols
              \cup InitiationCols

\* a real number: not NaN
Defined(x) == x[2] > 0

MinuteOfDay(ts) == ts % 1440

\* C5: extract returns exactly one row per distinct author of a non-empty
\* frame, every column of every row is a defined number, and an author with
\* no night message, no link, no initiating message or a single message has
\* 0 in the fields that concerns.
C5_FeaturesComplete ==
    (pc = "cluster" /\ df # <<>>) =>
        /\ DOMAIN features_df = {df[i].user : i \in 1..Len(df)}
        /\ \A u \in DOMAIN features_df :
              /\ DOMAIN features_df[u] = AllColumns
              /\ \A c \in AllColumns : Defined(features_df[u][c])
              /\ (\A i \in IdxOf(df, u) :
                     MinuteOfDay(df[i].timestamp) \in 360..1319)
                 => features_df[u].night_activity_ratio = Zero
              /\ (\A i \in IdxOf(df, u) : ~has_link(df[i].message))
                 => /\ features_df[u].total_links = Zero
                    /\ features_df[u].link_sharing_ratio = Zero
              /\ (\A i \in IdxOf(df, u) : \E j \in 1..Len(df) :
                     /\ df[j].timestamp < df[i].timestamp
                     /\ df[i].timestamp - df[j].timestamp <= 60)
                 => /\ features_df[u].initiations = Zero
                    /\ features_df[u].initiation_ratio = Zero
              /\ Cardinality(IdxOf(df, u)) = 1
                 => features_df[u].avg_response_time_hours = Zero

\* C5 happens: two authors whose names differ only in case; one has a single
\* daytime message without a link that follows the other's within the hour
C5_Witness ==
    /\ pc = "cluster"
    /\ DOMAIN features_df = {"A", "a"}
    /\ Cardinality(IdxOf(df, "a")) = 1
    /\ Cardinality(IdxOf(df, "A")) = 2
    /\ features_df["a"].night_activity_ratio = Zero
    /\ features_df["a"].initiations = Zero
    /\ features_df["a"].total_links = Zero
    /\ features_df["a"].avg_response_time_hours = Zero
    /\ features_df["A"].total_links # Zero
    /\ features_df["A"].night_activity_ratio # Zero

\* C6: every influence score the pipeline produces lies in [0, 1].
C6_InfluenceInUnitInterval ==
    \A u \in DOMAIN features_df :
        "influence_score" \in DOMAIN features_df[u] =>
            LET x == features_df[u].influence_score
            IN x[2] > 0 /\ 0 <= x[1] /\ x[1] <= x[2]

\* C6 happens: a row whose mean response time reaches the 24-hour cap has
\* its score, next to a row of a single message
C6_Witness ==
    /\ pc = "done"
    /\ \E u, v \in DOMAIN features_df :
          /\ RGe(features_df[u].avg_response_time_hours, <<24, 1>>)
          /\ features_df[v].total_messages = One
          /\ RLt(features_df[u].influence_score, features_df[v].influence_score)

\* the cluster labels in use, and the distinct feature vectors clustered
LabelsInUse == {features_df[u].cluster : u \in DOMAIN features_df}
Clustered == features_df # <<>> /\ HasColumn("cluster")
DistinctVectors ==
    {[j \in 1..Len(feature_columns) |-> features_df[u][feature_columns[j]]] :
        u \in DOMAIN features_df}

\* C7 as claimed: every label is in [0, k), and with at least k distinct
\* authors every label 0..k-1 has an author.
C7_EveryLabelUsed ==
    Clustered =>
        /\ \A u \in DOMAIN features_df : features_df[u].cluster \in 0..(n_clusters - 1)
        /\ Cardinality(TranscriptAuthors) >= n_clusters
           => LabelsInUse = 0..(n_clusters - 1)

\* C7, amended: every label is an integer in [0, k); authors with identical
\* feature vectors share their label, so no more labels are in use than
\* there are distinct feature vectors.
C7_LabelsInRange ==
    Clustered =>
        /\ \A u \in DOMAIN features_df : features_df[u].cluster \in 0..(n_clusters - 1)
        /\ \A u, v \in DOMAIN features_df :
              (\A j \in 1..Len(feature_columns) :
                  features_df[u][feature_columns[j]] = features_df[v][feature_columns[j]])
              => features_df[u].cluster = features_df[v].cluster
        /\ Cardinality(LabelsInUse) <= Cardinality(DistinctVectors)

\* C7 happens: three authors clustered with k = 3, two of them with the same
\* feature vector, so that a label stays unused
C7_Witness ==
    /\ Clustered
    /\ n_clusters = 3
    /\ Cardinality(DOMAIN features_df) = 3
    /\ Cardinality(DistinctVectors) = 2
    /\ Cardinality(LabelsInUse) = 2

TablesReturned == entry = "analyze_chat_streamlit" /\ pc = "done"

RECURSIVE SumOver(_, _)
SumOver(f, S) ==
    IF S = {} THEN 0
    ELSE LET x == CHOOSE y \in S : TRUE IN f[x] + SumOver(f, S \ {x})

UserCounts == [c \in DOMAIN result.cluster_summary |-> result.cluster_summary[c].user_count]

\* C8 as claimed: n authors and k <= n give n author rows and a summary of
\* exactly k rows whose user_count values sum to n.
C8_SummaryHasKRows ==
    (TablesReturned /\ n_clusters <= Cardinality(TranscriptAuthors)) =>
        /\ DOMAIN result.final_report = TranscriptAuthors
        /\ Cardinality(DOMAIN result.cluster_summary) = n_clusters
        /\ SumOver(UserCounts, DOMAIN UserCounts) = Cardinality(TranscriptAuthors)

\* C8, amended: n authors and k <= n give exactly one row per author and a
\* summary with one row per label in use, at least one and at most k, whose
\* user_count values sum to n.
C8_SummaryCoversAuthors ==
    (TablesReturned /\ n_clusters <= Cardinality(TranscriptAuthors)) =>
        /\ DOMAIN result.final_report = TranscriptAuthors
        /\ \A u \in TranscriptAuthors :
              result.final_report[u].total_messages[1]
                  = Cardinality({i \in RecordLines : strip(content[i].user) = u})
        /\ DOMAIN result.cluster_summary
              = {result.final_report[u].cluster : u \in TranscriptAuthors}
        /\ Cardinality(DOMAIN result.cluster_summary) \in 1..n_clusters
        /\ SumOver(UserCounts, DOMAIN UserCounts) = Cardinality(TranscriptAuthors)

\* C8 happens: three authors, k = 2, one of them with two messages, and the
\* summary's two rows count one and two authors
C8_Witness ==
    /\ TablesReturned
    /\ n_clusters = 2
    /\ Cardinality(TranscriptAuthors) = 3
    /\ Cardinality(DOMAIN result.cluster_summary) = 2
    /\ \E c \in DOMAIN UserCounts : UserCounts[c] = 2

\* C9 as claimed: A's three messages pairwise more than an hour apart and B's
\* two messages less than an hour apart give initiation ratios 1.0 and 0.5,
\* whatever their relative timing.
C9_RatiosWhateverTiming ==
    pc = "cluster" =>
        /\ features_df["A"].initiation_ratio = <<1, 1>>
        /\ features_df["B"].initiation_ratio = <<1, 2>>

\* every message of B is more than an hour away from every message of A
ApartByAnHour ==
    \A i \in IdxOf(df, "A"), j \in IdxOf(df, "B") :
        Abs(df[i].timestamp - df[j].timestamp) > 60

\* C9, amended: the ratios are 1.0 and 0.5 whenever, in addition, every
\* message of B is more than an hour away from every message of A.
C9_RatiosWhenApart ==
    (pc = "cluster" /\ ApartByAnHour) =>
        /\ features_df["A"].initiation_ratio = <<1, 1>>
        /\ features_df["B"].initiation_ratio = <<1, 2>>

\* C9 happens: B's two messages open the transcript, A's three follow later
C9_Witness ==
    /\ pc = "cluster"
    /\ ApartByAnHour
    /\ \A i \in IdxOf(df, "A"), j \in IdxOf(df, "B") : df[j].timestamp < df[i].timestamp
    /\ features_df["B"].initiation_ratio = <<1, 2>>

\* C10: night_activity_ratio is the share of the author's messages sent from
\* 22:00 to 05:59: 22:00 and 05:59 count, 06:00 and 21:59 do not.
C10_NightShare ==
    pc = "cluster" =>
        \A u \in DOMAIN features_df :
            LET night == {i \in IdxOf(df, u) :
                             \/ MinuteOfDay(df[i].timestamp) >= 22 * 60
                             \/ MinuteOfDay(df[i].timestamp) <= 5 * 60 + 59}
            IN features_df[u].night_activity_ratio[1] * Cardinality(IdxOf(df, u))
                   = Cardinality(night) * features_df[u].night_activity_ratio[2]

\* C10 happens: an author with messages at 05:59, 06:00 and 22:00 has 2/3
C10_Witness ==
    /\ pc = "cluster"
    /\ {df[i].timestamp : i \in IdxOf(df, "A")} = {HM(0, 5, 59), HM(0, 6, 0), HM(0, 22, 0)}
    /\ features_df["A"].night_activity_ratio = <<2, 3>>

\* C10 happens at the other boundary: messages at 21:59 and 22:00 give 1/2
C10_Witness2159 ==
    /\ pc = "cluster"
    /\ {df[i].timestamp : i \in IdxOf(df, "A")} = {HM(0, 21, 59), HM(0, 22, 0)}
    /\ Cardinality(IdxOf(df, "A")) = 2
    /\ features_df["A"].night_activity_ratio = <<1, 2>>

\* the lines whose match became a record, in source order
RecordLineSeq ==
    SelectSeq(MatchStarts(content, 1),
              LAMBDA i : parse_timestamp(content[i].date, content[i].time) # NaT)

Parsed == pc = "extract"

\* C12: every record parse returns has a timestamp that is not missing, an
\* author that is not empty after trimming and a message that is not empty
\* after trimming; a line whose author or message is empty or blank gives no
\* record.
C12_RecordsNonEmpty ==
    Parsed =>
        /\ \A j \in 1..Len(df) :
              /\ df[j].timestamp # NaT
              /\ strip(df[j].user) # <<>>
              /\ strip(df[j].message) # <<>>
        /\ \A i \in 1..Len(content) :
              (content[i].sep = "space"
               /\ (strip(content[i].user) = <<>> \/ strip(content[i].message) = <<>>))
              => i \notin RecordLines

\* the transcript without its line i
WithoutLine(c, i) == SubSeq(c, 1, i - 1) \o SubSeq(c, i + 1, Len(c))

\* the matching lines whose timestamp neither a layout nor the lenient parse
\* resolves
UnresolvedLines ==
    {i \in Range(MatchStarts(content, 1)) :
        parse_timestamp(content[i].date, content[i].time) = NaT}

\* C13: a matching line whose timestamp cannot be resolved is dropped without
\* raising and affects nothing else: parse returns what it returns for the
\* transcript without that line, the other lines' records unchanged and in
\* source order, and fails only when no record remains.
C13_UnresolvedLineDroppedAlone ==
    (pc # "parse" /\ UnresolvedLines # {}) =>
        /\ \A i \in UnresolvedLines :
              df = parsed_messages(WithoutLine(content, i))
        /\ pc = "raised" => (error = Err_NoMessages /\ df = <<>>)
        /\ Parsed => df # <<>>

\* the timestamp a layout gives a line, as the claim lists the layouts
LayoutParses(line, order, ydigits, clock) ==
    strptime_ok(line.date, line.time, [order |-> order, ydigits |-> ydigits, clock |-> clock])
LayoutValue(line, order) == to_timestamp(FieldsAs(line.date, order), line.time)
FirstLayoutValue(line) ==
    IF LayoutParses(line, "dmy", 4, 12) THEN LayoutValue(line, "dmy")
    ELSE IF LayoutParses(line, "dmy", 2, 12) THEN LayoutValue(line, "dmy")
    ELSE IF LayoutParses(line, "mdy", 4, 12) THEN LayoutValue(line, "mdy")
    ELSE IF LayoutParses(line, "mdy", 2, 12) THEN LayoutValue(line, "mdy")
    ELSE IF LayoutParses(line, "ymd", 4, 24) THEN LayoutValue(line, "ymd")
    ELSE IF LayoutParses(line, "dmy", 4, 24) THEN LayoutValue(line, "dmy")
    ELSE IF LayoutParses(line, "mdy", 4, 24) THEN LayoutValue(line, "mdy")
    ELSE to_datetime_dayfirst(line.date, line.time)

\* the year a slash date names
SlashYear(d) == IF d.year < 100 THEN 2000 + d.year ELSE d.year

\* C14: each record's timestamp is what the first layout that parses gives,
\* in the order day-first 4-digit year 12h, day-first 2-digit year 12h,
\* month-first 4-digit year 12h, month-first 2-digit year 12h, ISO 24h,
\* day-first 24h, month-first 24h, and the lenient day-first parse only when
\* all seven fail; a slash date whose first two fields are both at most 12
\* is read day first, and a slash date is read month first only when its
\* day-first reading is no date.
C14_FirstLayoutWins ==
    Parsed =>
        \A j \in 1..Len(df) :
            LET line == content[RecordLineSeq[j]]
                d == line.date
            IN /\ df[j].timestamp = FirstLayoutValue(line)
               /\ (d.shape = "slash" /\ d.f1 <= 12 /\ d.f2 <= 12)
                  => dt_date(df[j].timestamp) = DayNumber(SlashYear(d), d.f2, d.f1)
               /\ (d.shape = "slash" /\ d.f1 # d.f2
                   /\ dt_date(df[j].timestamp) = DayNumber(SlashYear(d), d.f1, d.f2))
                  => ~ValidDate(SlashYear(d), d.f2, d.f1)

\* C14 happens: a transcript of 2/13/2024, 10:00 AM, which only the third
\* layout parses, and 1/2/24, 14:00, which is left to the lenient parse, has
\* given 13 February 10:00 and 1 February 14:00
C14_Witness ==
    /\ Parsed
    /\ Len(df) = 2
    /\ content[1].date = Slash(2, 13, 2024) /\ content[1].time = Clock(10, 0, "AM")
    /\ content[2].date = Slash(1, 2, 24) /\ content[2].time = Clock(14, 0, "")
    /\ df[1].timestamp = HM(DayNumber(2024, 2, 13), 10, 0)
    /\ df[2].timestamp = HM(DayNumber(2024, 2, 1), 14, 0)

\* invocation i has its cluster labels
ClusteredOf(i) == pc[i] \in {"profile", "csv", "pdf", "done"} \/ error[i] \in {Err_Csv, Err_Pdf}

\* the feature table of invocation i as clustering received it
FeatureTableOf(i) ==
    [u \in DOMAIN features_df[i] |-> [c \in AllColumns |-> features_df[i][u][c]]]

\* C11: two runs of the clustering stage on the same feature table with the
\* same k and the same seed give every author the same cluster label.
C11_SameSeedSameLabels ==
    \A i, j \in Invocations :
        (/\ ClusteredOf(i) /\ ClusteredOf(j)
         /\ FeatureTableOf(i) = FeatureTableOf(j)
         /\ n_clusters[i] = n_clusters[j]
         /\ random_state[i] = random_state[j])
        => \A u \in DOMAIN features_df[i] :
              features_df[i][u].cluster = features_df[j][u].cluster

\* C11 happens: both invocations have clustered the same table of two
\* authors with k = 2 and seed 42, and the two authors differ in label
C11_Witness ==
    /\ ClusteredOf(1) /\ ClusteredOf(2)
    /\ FeatureTableOf(1) = FeatureTableOf(2)
    /\ n_clusters = [i \in Invocations |-> 2]
    /\ random_state = [i \in Invocations |-> 42]
    /\ {features_df[1][u].cluster : u \in DOMAIN features_df[1]} = {0, 1}

\* C15: whatever the other invocation does, an invocation that has finished
\* has returned its own table, and the report files belonging to it hold
\* the reports of that table, as they would had it run alone.
C15_InvocationsIsolated ==
    \A i \in Invocations :
        pc[i] = "done" =>
            /\ result[i] = [kind |-> "table", table |-> features_df[i]]
            /\ \E rows \in csv_rows(features_df[i]) :
                  csv_file[csv_path_of(csv_output[i])] = csv_written(features_df[i], rows)
            /\ \E rows \in pdf_rows(features_df[i]) :
                  pdf_file[pdf_path_of(pdf_output[i])] = pdf_written(features_df[i], rows)

\* the names the claim calls canonical
CanonicalName(id) ==
    CASE id = 0 -> "Regular Participants"
      [] id = 1 -> "Active Conversationalists"
      [] id = 2 -> "Information Broadcasters"
      [] id = 3 -> "Silent Observers"
      [] id = 4 -> "Night Owls"

Extracted == pc = "cluster"

\* the frame with only the messages of author u
OnlyOf(d, u) == SelectSeq(d, LAMBDA r : r.user = u)

\* the fields of u's feature vector in cols are what extract gives for the
\* transcript without the other authors' messages
ScopedTo(u, cols) ==
    \A order \in sort_values_timestamp(OnlyOf(df, u)) :
        \A c \in cols :
            features_df[u][c] = extract_all_features(OnlyOf(df, u), order)[u][c]

\* C17 as claimed: every field of an author's feature vector depends on that
\* author's messages only.
C17_EveryFieldAuthorScoped ==
    Extracted => \A u \in DOMAIN features_df : ScopedTo(u, AllColumns)

\* C17, amended: every field other than initiations and initiation_ratio
\* depends on that author's messages only.
C17_FieldsAuthorScoped ==
    Extracted =>
        \A u \in DOMAIN features_df :
            ScopedTo(u, AllColumns \ {"initiations", "initiation_ratio"})

\* C17 happens: author a writes within the hour after author A, so that a's
\* initiation_ratio is 0 where alone it would be 1, and A has a link, a
\* night message and two messages
C17_Witness ==
    /\ Extracted
    /\ DOMAIN features_df = {"A", "a"}
    /\ features_df["a"].initiation_ratio = Zero
    /\ features_df["A"].total_messages = <<2, 1>>
    /\ features_df["A"].total_links # Zero
    /\ features_df["A"].night_activity_ratio # Zero

\* the timestamps of the frame
Stamps == [i \in 1..Len(df) |-> df[i].timestamp]

\* message i starts a conversation by the claim's rule: no message is before
\* it, or the latest message before it is more than an hour before
StartsConversation(i) ==
    \A j \in 1..Len(df) : Stamps[j] < Stamps[i] => Stamps[i] - Stamps[j] > 60

\* C20: a message counts as starting a conversation exactly if it is the
\* first of the frame sorted by timestamp or comes more than one hour,
\* not just one hour, after the message before it, whoever wrote that; an
\* author's initiation_ratio is the count of that author's such messages
\* over the count of that author's messages.
C20_InitiationByGlobalGap ==
    Extracted =>
        /\ \E order \in sort_values_timestamp(df) :
              \A u \in DOMAIN features_df :
                  LET mine == {p \in 1..Len(order) : df[order[p]].user = u}
                      starts == {p \in mine :
                                   \/ p = 1
                                   \/ p > 1 /\ Stamps[order[p]] - Stamps[order[p - 1]] > 60}
                  IN /\ features_df[u].initiations = <<Cardinality(starts), 1>>
                     /\ features_df[u].initiation_ratio
                           = Rat(Cardinality(starts), Cardinality(mine))
        /\ (\A i, j \in 1..Len(df) : i # j => Stamps[i] # Stamps[j])
           => \A u \in DOMAIN features_df :
                 features_df[u].initiations
                    = <<Cardinality({i \in IdxOf(df, u) : StartsConversation(i)}), 1>>

\* C20 happens: B writes exactly one hour after a message of A and again a
\* minute later, no two messages share a timestamp, and B's ratio is 0
C20_Witness ==
    /\ Extracted
    /\ \A i, j \in 1..Len(df) : i # j => Stamps[i] # Stamps[j]
    /\ \E i \in IdxOf(df, "A"), j \in IdxOf(df, "B") :
          /\ Stamps[j] - Stamps[i] = 60
          /\ \A l \in 1..Len(df) : ~(Stamps[i] < Stamps[l] /\ Stamps[l] < Stamps[j])
    /\ features_df["B"].initiation_ratio = Zero
    /\ features_df["A"].initiation_ratio = One

Profiled == pc \notin {"parse", "extract", "cluster", "profile", "raised"}

\* x >= n/d and x > n/d for a cell x and integers n, d > 0
AtLeast(x, n, d) == x[1] * d >= n * x[2]
Above(x, n, d) == x[1] * d > n * x[2]

ActivityTier(f) ==
    IF AtLeast(f.messages_per_day, 4, 1) \/ AtLeast(f.total_messages, 500, 1)
    THEN "highly active"
    ELSE IF AtLeast(f.messages_per_day, 2, 1) \/ AtLeast(f.total_messages, 100, 1)
    THEN "moderately active"
    ELSE "low activity"

\* emoji-mean + 0.5 * exclamation-mean + 10 * uppercase-ratio
EmotionalScore(f) ==
    RAdd(f.avg_emojis, RAdd(RDivInt(f.avg_exclamations, 2),
                            RMul(<<10, 1>>, f.uppercase_ratio)))

\* the template of the profile text, clause after clause
Template(f) ==
    "This user belongs to the '"
    \o (IF f.cluster \in 0..4 THEN CanonicalName(f.cluster)
        ELSE "Cluster " \o ToString(f.cluster))
    \o "' group. This user is " \o ActivityTier(f)
    \o (IF AtLeast(f.avg_length, 100, 1)
        THEN ", writes long, detailed messages" ELSE ", prefers short messages")
    \o (IF AtLeast(EmotionalScore(f), 2, 1)
        THEN ", emotionally expressive" ELSE ", emotionally reserved")
    \o (IF ~AtLeast(f.avg_response_time_hours, 2, 1)
        THEN ", responds quickly" ELSE ", responds slowly")
    \o (IF Above(f.link_sharing_ratio, 1, 10)
        THEN ", often shares links or resources" ELSE "")
    \o (IF Above(f.night_activity_ratio, 3, 10) THEN ", more active at night" ELSE "")
    \o (IF Above(f.initiation_ratio, 1, 10) \/ Above(f.influence_score, 95, 100)
        THEN ", frequently initiates conversations and influences group flow."
        ELSE ".")

\* C18: the profile text of every row is the template filled in clause after
\* clause in its fixed order: membership sentence, activity tier (>= 4 a day
\* or >= 500 in all; >= 2 a day or >= 100 in all), length (>= 100), emotion
\* (score >= 2), response (< 2 hours), links (> 0.1), night (> 0.3), and the
\* closing clause exactly if initiation ratio > 0.1 or influence > 0.95.
C18_ProfileIsTemplate ==
    Profiled =>
        \A u \in DOMAIN features_df :
            features_df[u].behavior_profile = Template(features_df[u])

\* C18 happens: a row with every value on its threshold (4 messages a day,
\* 100 characters, emotional score 2, response time 2 hours, link ratio 0.1,
\* night ratio 0.3, initiation ratio 0.1) has been profiled
C18_Witness ==
    /\ Profiled
    /\ \E u \in DOMAIN features_df :
          LET f == features_df[u]
          IN /\ f.messages_per_day = <<4, 1>>
             /\ f.avg_length = <<100, 1>>
             /\ EmotionalScore(f) = <<2, 1>>
             /\ f.avg_response_time_hours = <<2, 1>>
             /\ f.link_sharing_ratio = <<1, 10>>
             /\ f.night_activity_ratio = <<3, 10>>
             /\ f.initiation_ratio = <<1, 10>>
             /\ f.behavior_profile =
                   "This user belongs to the 'Regular Participants' group. "
                   \o "This user is highly active, writes long, detailed messages, "
                   \o "emotionally expressive, responds slowly."

\* 0.4 * min(messages_per_day / 5, 1)
ActivityShare(f) ==
    IF AtLeast(f.messages_per_day, 5, 1) THEN <<2, 5>>
    ELSE RMul(<<2, 25>>, f.messages_per_day)

\* 0.3 * (1 - min(response_time_hours / 24, 1))
ResponsivenessShare(f) ==
    IF AtLeast(f.avg_response_time_hours, 24, 1) THEN Zero
    ELSE RSub(<<3, 10>>, RMul(<<1, 80>>, f.avg_response_time_hours))

\* 0.3 * min(10 * initiation_ratio, 1)
InitiationShare(f) ==
    IF AtLeast(f.initiation_ratio, 1, 10) THEN <<3, 10>>
    ELSE RMul(<<3, 1>>, f.initiation_ratio)

SharesSum(f) == RAdd(ActivityShare(f), RAdd(ResponsivenessShare(f), InitiationShare(f)))

\* C19: the influence score is the sum of the activity share (full at 5 or
\* more messages a day), the responsiveness share (nothing at a mean response
\* time of 24 hours or more) and the initiation share (full at an initiation
\* ratio of 0.1 or more), with weights 0.4, 0.3 and 0.3, clamped to [0, 1].
C19_InfluenceFormula ==
    Profiled =>
        \A u \in DOMAIN features_df :
            LET f == features_df[u]
                sum == SharesSum(f)
            IN f.influence_score =
                  IF Above(Zero, sum[1], sum[2]) THEN Zero
                  ELSE IF Above(sum, 1, 1) THEN One
                  ELSE sum

\* C19 happens: 6 messages a day, a mean response time of 30 hours and an
\* initiation ratio of 1/3 give 0.4 + 0 + 0.3
C19_Witness ==
    /\ Profiled
    /\ \E u \in DOMAIN features_df :
          /\ features_df[u].messages_per_day = <<6, 1>>
          /\ features_df[u].avg_response_time_hours = <<30, 1>>
          /\ features_df[u].initiation_ratio = <<1, 3>>
          /\ features_df[u].influence_score = <<7, 10>>

\* C21: the first message of every author counts as an initiating message,
\* however soon it follows a message of another author, so that the
\* initiation_ratio of every author is above 0.
C21_EveryAuthorInitiates ==
    Extracted =>
        \A u \in DOMAIN features_df :
            /\ RLt(Zero, features_df[u].initiation_ratio)
            /\ RGe(features_df[u].initiations, One)

\* the timestamps of the messages of u
StampsOf(u) == {df[i].timestamp : i \in IdxOf(df, u)}

Latest(S) == CHOOSE x \in S : \A y \in S : y <= x
Earliest(S) == CHOOSE x \in S : \A y \in S : x <= y

\* the mean, in hours, of the gaps between the messages of u taken in the
\* order of time: the gaps add up to the time from the earliest to the latest
MeanGapHours(u) ==
    LET n == Cardinality(IdxOf(df, u))
    IN IF n = 1 THEN Zero
       ELSE Rat(Latest(StampsOf(u)) - Earliest(StampsOf(u)), 60 * (n - 1))

\* C22: avg_response_time_hours of an author is the mean, in hours, of the
\* gaps between that author's own messages in the order of time, whatever
\* the order of the source, is never negative, and is 0 for an author with
\* one message.
C22_ResponseTimeIsMeanGap ==
    Extracted =>
        \A u \in DOMAIN features_df :
            /\ features_df[u].avg_response_time_hours = MeanGapHours(u)
            /\ RGe(features_df[u].avg_response_time_hours, Zero)

\* C22 happens: A's two messages stand in the source later one first, 61
\* minutes apart, and a has one message
C22_Witness ==
    /\ Extracted
    /\ Len(df) = 3
    /\ df[1].user = "A" /\ df[2].user = "a" /\ df[3].user = "A"
    /\ df[1].timestamp = HM(0, 7, 1) /\ df[3].timestamp = HM(0, 6, 0)
    /\ features_df["A"].avg_response_time_hours = <<61, 60>>
    /\ features_df["a"].avg_response_time_hours = Zero

\* the emoji blocks: emoticons, symbols and pictographs, transport symbols,
\* flags, dingbats
InEmojiBlocks(ch) ==
    \/ ch \in 128512..128591
    \/ ch \in 127744..128511
    \/ ch \in 128640..128767
    \/ ch \in 127456..127487
    \/ ch \in 9986..10160

\* the number of emoji glyphs of a message, each counted once
Glyphs(m) == Cardinality({i \in 1..Len(m) : InEmojiBlocks(m[i])})

\* C23: the emoji count of a message is the number of its emoji glyphs, three
\* in a row counting 3 and characters outside the emoji blocks counting 0,
\* and avg_emojis is the mean of that count over the messages of the author.
C23_EmojiGlyphsCounted ==
    Extracted =>
        \A u \in DOMAIN features_df :
            features_df[u].avg_emojis
               = Rat(SumSeq([i \in 1..Len(OnlyOf(df, u)) |->
                                Glyphs(OnlyOf(df, u)[i].message)]),
                     Len(OnlyOf(df, u)))

\* the orders in which the n records of a source can stand
SourceOrders(n) ==
    {p \in [1..n -> 1..n] : \A i, j \in 1..n : i # j => p[i] # p[j]}

\* C24: extract returns the same feature vectors for every order of the same
\* records in the source, records with equal timestamps included.
C24_SourceOrderIrrelevant ==
    Extracted =>
        \A p \in SourceOrders(Len(df)) :
            \A order \in sort_values_timestamp(Pick(df, p)) :
                extract_all_features(Pick(df, p), order) = features_df

\* the name result gives the row of u, and the sentence that puts it into a
\* profile text
NamedSentence(name) == "This user belongs to the '" \o name \o "' group."

StartsWith(text, prefix) ==
    Len(text) >= Len(prefix) /\ SubSeq(text, 1, Len(prefix)) = prefix

\* C25: with a custom mapping of cluster names, the name in the profile text
\* of every row of the result is the cluster_name of that row, which is the
\* name of the cluster summary's row for that label.
C25_CustomNamesEverywhere ==
    (TablesReturned /\ cluster_names # NoMapping) =>
        \A u \in DOMAIN result.final_report :
            LET row == result.final_report[u]
            IN /\ StartsWith(row.behavior_profile, NamedSentence(row.cluster_name))
               /\ result.cluster_summary[row.cluster].cluster_name = row.cluster_name

\* the places of a text where one of the two-character sequences stands
Doubled(text) ==
    {i \in 1..(Len(text) - 1) : SubSeq(text, i, i + 1) \in {"..", ",.", " ,"}}

\* C26: every profile text ends in one period that stands right after a
\* word (not after a period, a comma or a space, as a "." appended as a part
\* of its own would), and holds none of "..", ",." and " ,".
C26_OnePeriodAtTheEnd ==
    Profiled =>
        \A u \in DOMAIN features_df :
            LET text == features_df[u].behavior_profile
                n == Len(text)
            IN /\ n >= 2
               /\ SubSeq(text, n, n) = "."
               /\ SubSeq(text, n - 1, n - 1) \notin {".", ",", " "}
               /\ Doubled(text) = {}

EndsWith(text, suffix) ==
    Len(text) >= Len(suffix)
    /\ SubSeq(text, Len(text) - Len(suffix) + 1, Len(text)) = suffix

\* C26 happens: a row without the closing clause whose last clause is the
\* night clause
C26_Witness ==
    /\ Profiled
    /\ \E u \in DOMAIN features_df :
          /\ features_df[u].initiation_ratio = Zero
          /\ features_df[u].night_activity_ratio = <<1, 2>>
          /\ EndsWith(features_df[u].behavior_profile,
                      "responds slowly, more active at night.")

\* the record that a line gives by itself
RecordOfLine(line) ==
    [timestamp |-> parse_timestamp(line.date, line.time),
     user |-> strip(line.user),
     message |-> strip(IF line.sep = "space" THEN line.message ELSE <<>>)]

\* C27: every record parse returns is built from one physical line that
\* matches the pattern by itself: nothing of a following line is in its
\* author or its message, and a line that does not match gives nothing.
C27_OneLinePerRecord ==
    Parsed =>
        \A j \in 1..Len(df) :
            \E i \in 1..Len(content) :
                StartsMatch(content, i) /\ df[j] = RecordOfLine(content[i])

\* u stands before v in the rows of a report
Earlier(rows, u, v) ==
    \E i, j \in 1..Len(rows) : i < j /\ rows[i] = u /\ rows[j] = v

\* C28: the CSV report and the PDF report list the authors in the same order,
\* by influence score descending: an author whose influence score is greater
\* than another's stands before that author in both reports.
C28_ReportsByInfluence ==
    (csv_file # NoFile /\ pdf_file # NoFile) =>
        \A u, v \in DOMAIN features_df :
            RLt(features_df[v].influence_score, features_df[u].influence_score)
            => /\ Earlier(csv_file.rows, u, v)
               /\ Earlier(pdf_file.rows, u, v)

====
